---- MODULE Spec2Model ----
(***************************************************************************)
(* A model of the keyframe animation player of ai-motion-studio             *)
(* (components/VideoPlayer.tsx): the transform parser, the style resolver   *)
(* useAnimatedStyle with its useMemo cache, the scene opacity schedule of   *)
(* SceneComponent and the Sequence windows of Animation, driven by the      *)
(* frame counter of the Player.                                             *)
(*                                                                          *)
(* Numbers.  A JavaScript number is modelled as an exact rational <<n, d>>  *)
(* in lowest terms with d > 0; NaN is <<0, 0>>.  The keyframe positions of  *)
(* the model are chosen so that at * duration is an integer that the        *)
(* double-precision product yields exactly.                                 *)
(***************************************************************************)
EXTENDS Integers, Sequences, FiniteSets, TLC

\* ------------------------------------------------------------------------
\* Numbers
\* ------------------------------------------------------------------------

Abs(n) == IF n < 0 THEN -n ELSE n

RECURSIVE Gcd(_, _)
Gcd(a, b) == IF b = 0 THEN a ELSE Gcd(b, a % b)

NaN == <<0, 0>>

IsNaN(x) == x[2] = 0

\* n/d in lowest terms, the sign carried by the numerator.
Normalize(n, d, g) ==
    IF d < 0 THEN <<(-n) \div g, (-d) \div g>> ELSE <<n \div g, d \div g>>

Num(n, d) == IF d = 0 THEN NaN ELSE Normalize(n, d, Gcd(Abs(n), Abs(d)))

OfInt(n) == <<n, 1>>

Add(x, y) == IF IsNaN(x) \/ IsNaN(y) THEN NaN
             ELSE Num(x[1] * y[2] + y[1] * x[2], x[2] * y[2])

Sub(x, y) == IF IsNaN(x) \/ IsNaN(y) THEN NaN
             ELSE Num(x[1] * y[2] - y[1] * x[2], x[2] * y[2])

Mul(x, y) == IF IsNaN(x) \/ IsNaN(y) THEN NaN
             ELSE Num(x[1] * y[1], x[2] * y[2])

\* x / y; the model never divides by zero (interpolate checks its ranges).
Div(x, y) == IF IsNaN(x) \/ IsNaN(y) THEN NaN
             ELSE Num(x[1] * y[2], x[2] * y[1])

\* Comparisons with NaN are false, as in JavaScript.
Lt(x, y) == ~IsNaN(x) /\ ~IsNaN(y) /\ x[1] * y[2] < y[1] * x[2]

Le(x, y) == ~IsNaN(x) /\ ~IsNaN(y) /\ x[1] * y[2] <= y[1] * x[2]

Min(x, y) == IF IsNaN(x) \/ IsNaN(y) THEN NaN ELSE IF Lt(y, x) THEN y ELSE x

RECURSIVE Pow10(_)
Pow10(k) == IF k = 0 THEN 1 ELSE 10 * Pow10(k - 1)

\* The digits of a natural number, padded on the left with zeros to width w.
RECURSIVE Digits(_, _)
Digits(n, w) ==
    IF n < 10 /\ w <= 1 THEN ToString(n)
    ELSE Digits(n \div 10, w - 1) \o ToString(n % 10)

\* The least k <= 6 with d dividing 10^k, or -1 when the decimal expansion
\* of a fraction with denominator d does not terminate within 6 places.
RECURSIVE DecimalPlaces(_, _)
DecimalPlaces(d, k) ==
    IF k > 6 THEN -1
    ELSE IF Pow10(k) % d = 0 THEN k
    ELSE DecimalPlaces(d, k + 1)

\* String(x) of a number, as a template literal renders it: an integer in
\* decimal, a terminating fraction as a decimal fraction with k places.  A
\* number whose expansion does not terminate (k = -1) is written as the
\* fraction n/d (the model's numbers are exact; JavaScript prints the
\* shortest decimal of the double).
Sign(n) == IF n < 0 THEN "-" ELSE ""

Fraction(n, d, k) ==
    IF k = -1 THEN Digits(n, 1) \o "/" \o Digits(d, 1)
    ELSE Digits(n \div d, 1) \o "."
         \o Digits(((n * Pow10(k)) \div d) % Pow10(k), k)

NumToString(x) ==
    IF IsNaN(x) THEN "NaN"
    ELSE IF x[2] = 1 THEN Sign(x[1]) \o Digits(Abs(x[1]), 1)
    ELSE Sign(x[1]) \o Fraction(Abs(x[1]), x[2], DecimalPlaces(x[2], 1))

\* ------------------------------------------------------------------------
\* Strings: characters are the one-character substrings
\* ------------------------------------------------------------------------

CharAt(s, i) == SubSeq(s, i, i)

DigitChars == {"0", "1", "2", "3", "4", "5", "6", "7", "8", "9"}

DigitValue(c) ==
    CASE c = "0" -> 0 [] c = "1" -> 1 [] c = "2" -> 2 [] c = "3" -> 3
      [] c = "4" -> 4 [] c = "5" -> 5 [] c = "6" -> 6 [] c = "7" -> 7
      [] c = "8" -> 8 [] c = "9" -> 9

\* The characters a transform string of the model is written with that the
\* regular expression class \w matches.
WordChars ==
    DigitChars \cup
    {"a", "b", "c", "d", "e", "f", "g", "h", "i", "j", "k", "l", "m", "n",
     "o", "p", "q", "r", "s", "t", "u", "v", "w", "x", "y", "z",
     "X", "Y", "Z", "_"}

IsWord(s, i) == i <= Len(s) /\ CharAt(s, i) \in WordChars

IsDigit(s, i) == i <= Len(s) /\ CharAt(s, i) \in DigitChars

\* The first index >= i that does not hold a word character (Len(s)+1 at the end).
RECURSIVE WordEnd(_, _)
WordEnd(s, i) == IF IsWord(s, i) THEN WordEnd(s, i + 1) ELSE i

RECURSIVE DigitEnd(_, _)
DigitEnd(s, i) == IF IsDigit(s, i) THEN DigitEnd(s, i + 1) ELSE i

\* The first index >= i holding character c, or 0 when there is none.
RECURSIVE IndexOf(_, _, _)
IndexOf(s, c, i) ==
    IF i > Len(s) THEN 0
    ELSE IF CharAt(s, i) = c THEN i
    ELSE IndexOf(s, c, i + 1)

\* String.prototype.includes
RECURSIVE IncludesFrom(_, _, _)
IncludesFrom(s, sub, i) ==
    IF i + Len(sub) - 1 > Len(s) THEN FALSE
    ELSE IF SubSeq(s, i, i + Len(sub) - 1) = sub THEN TRUE
    ELSE IncludesFrom(s, sub, i + 1)

Includes(s, sub) == IncludesFrom(s, sub, 1)

\* The natural number written by the digits s[i..j-1] (0 when there are none).
RECURSIVE DigitsValue(_, _, _)
DigitsValue(s, i, j) ==
    IF j <= i THEN 0
    ELSE 10 * DigitsValue(s, i, j - 1) + DigitValue(CharAt(s, j - 1))

RECURSIVE SkipSpaces(_, _)
SkipSpaces(s, i) ==
    IF i <= Len(s) /\ CharAt(s, i) = " " THEN SkipSpaces(s, i + 1) ELSE i

\* The global parseFloat: leading blanks, an optional sign, digits with an
\* optional fraction; the longest such prefix is the number, and NaN when
\* there is no digit.  (Exponents and Infinity are not written by the model.)
\* q is the index after the sign, intEnd the end of the integer digits,
\* fracLen the number of fraction digits.
Negate(neg, x) == IF neg THEN Sub(OfInt(0), x) ELSE x

ParseFloatValue(s, neg, q, intEnd, fracLen) ==
    IF intEnd = q /\ fracLen = 0 THEN NaN
    ELSE Negate(neg, Add(OfInt(DigitsValue(s, q, intEnd)),
                         Num(DigitsValue(s, intEnd + 1, intEnd + 1 + fracLen),
                             Pow10(fracLen))))

ParseFloatDigits(s, neg, q, intEnd) ==
    ParseFloatValue(s, neg, q, intEnd,
        IF intEnd <= Len(s) /\ CharAt(s, intEnd) = "."
        THEN DigitEnd(s, intEnd + 1) - (intEnd + 1) ELSE 0)

ParseFloatFrom(s, p) ==
    IF p <= Len(s) /\ CharAt(s, p) \in {"-", "+"}
    THEN ParseFloatDigits(s, CharAt(s, p) = "-", p + 1, DigitEnd(s, p + 1))
    ELSE ParseFloatDigits(s, FALSE, p, DigitEnd(s, p))

parseFloat(s) == ParseFloatFrom(s, SkipSpaces(s, 1))

\* ------------------------------------------------------------------------
\* parseTransform (VideoPlayer.tsx 12-25)
\* ------------------------------------------------------------------------

NoMatch == [found |-> FALSE]

\* One regex.exec of /(\w+)\(([^)]+)\)/g from index i: the leftmost word that
\* is directly followed by "(", at least one character other than ")", and a
\* ")".  A word that fails cannot match from any of its later characters
\* either, so the search resumes after it.  j is the end of the word at i, k
\* the index of the first ")" after the "(" at j (0: none).
RECURSIVE RegexExec(_, _)
RegexClose(s, i, j, k) ==
    IF k > j + 1
    THEN [found |-> TRUE, func |-> SubSeq(s, i, j - 1),
          valStr |-> SubSeq(s, j + 1, k - 1), lastIndex |-> k + 1]
    ELSE RegexExec(s, j)

RegexWord(s, i, j) ==
    RegexClose(s, i, j,
        IF j <= Len(s) /\ CharAt(s, j) = "(" THEN IndexOf(s, ")", j + 1) ELSE 0)

RegexExec(s, i) ==
    IF i > Len(s) THEN NoMatch
    ELSE IF ~IsWord(s, i) THEN RegexExec(s, i + 1)
    ELSE RegexWord(s, i, WordEnd(s, i))

\* valStr.match(/(-?\d*\.?\d+)(.*)/) tried at index p, then at p+1, ...: the
\* leftmost place where an optional "-", digits, and either "." with digits
\* or at least one digit stand; group 1 is that number, group 2 the rest.
\* q is the index after the "-", r the end of the digits from q.
RECURSIVE ValMatch(_, _)
ValMatchEnd(v, p, e) ==
    [found |-> TRUE, number |-> SubSeq(v, p, e - 1), rest |-> SubSeq(v, e, Len(v))]

ValMatchDigits(v, p, q, r) ==
    IF r <= Len(v) /\ CharAt(v, r) = "." /\ IsDigit(v, r + 1)
    THEN ValMatchEnd(v, p, DigitEnd(v, r + 1))
    ELSE IF r > q THEN ValMatchEnd(v, p, r)
    ELSE ValMatch(v, p + 1)

ValMatch(v, p) ==
    IF p > Len(v) THEN NoMatch
    ELSE IF CharAt(v, p) = "-" THEN ValMatchDigits(v, p, p + 1, DigitEnd(v, p + 1))
    ELSE ValMatchDigits(v, p, p, DigitEnd(v, p))

\* result[func] = {value, unit}: an existing key keeps its place in the
\* object's key order and takes the new value; a new key is appended.
RECURSIVE SetKey(_, _)
SetKey(result, entry) ==
    IF result = <<>> THEN <<entry>>
    ELSE IF Head(result).func = entry.func THEN <<entry>> \o Tail(result)
    ELSE <<Head(result)>> \o SetKey(Tail(result), entry)

\* The body of the while loop for one match (lines 18-22).
ParseEntry(result, func, valMatch) ==
    IF valMatch.found
    THEN SetKey(result, [func |-> func, value |-> parseFloat(valMatch.number),
                         unit |-> valMatch.rest])
    ELSE result

RECURSIVE ParseLoop(_, _, _)
ParseMatch(s, result, match) ==
    IF ~match.found THEN result
    ELSE ParseLoop(s, match.lastIndex,
                   ParseEntry(result, match.func, ValMatch(match.valStr, 1)))

ParseLoop(s, i, result) == ParseMatch(s, result, RegexExec(s, i))

\* The parsed transform: the entries {func, value, unit} in key order.  An
\* absent (undefined) or empty string gives no entry.
parseTransform(transform) ==
    IF transform = "" THEN <<>> ELSE ParseLoop(transform, 1, <<>>)

\* Object.keys(parsed)
Keys(parsed) == [i \in 1..Len(parsed) |-> parsed[i].func]

\* parsed[func]: the entry of the key, or undefined.
RECURSIVE Lookup(_, _)
Lookup(parsed, func) ==
    IF parsed = <<>> THEN NoMatch
    ELSE IF Head(parsed).func = func
    THEN [found |-> TRUE, value |-> Head(parsed).value, unit |-> Head(parsed).unit]
    ELSE Lookup(Tail(parsed), func)

\* ------------------------------------------------------------------------
\* interpolate, imported from remotion (VideoPlayer.tsx 3)
\* ------------------------------------------------------------------------

Extend == [extrapolateLeft |-> "extend", extrapolateRight |-> "extend"]

Clamp == [extrapolateLeft |-> "clamp", extrapolateRight |-> "clamp"]

\* A call that throws.
Thrown == [ok |-> FALSE]

Returned(v) == [ok |-> TRUE, value |-> v]

\* checkInfiniteRange: at least two elements, every one a finite number.
checkInfiniteRange(arr) ==
    Len(arr) >= 2 /\ \A i \in 1..Len(arr) : ~IsNaN(arr[i])

\* checkValidInputRange: strictly increasing.
checkValidInputRange(arr) ==
    \A i \in 2..Len(arr) : Lt(arr[i - 1], arr[i])

\* findRange: the 0-based index i-1 of the segment, i the first index in
\* 1..length-2 with inputRange[i] >= input, or length-1 when there is none.
RECURSIVE FindRangeFrom(_, _, _)
FindRangeFrom(input, inputRange, i) ==
    IF i < Len(inputRange) - 1 /\ ~Le(input, inputRange[i + 1])
    THEN FindRangeFrom(input, inputRange, i + 1)
    ELSE i - 1

findRange(input, inputRange) == FindRangeFrom(input, inputRange, 1)

\* interpolateFunction on one segment, with the identity easing.
interpolateFunction(input, inputMin, inputMax, outputMin, outputMax, options) ==
    LET result ==
            IF Lt(input, inputMin) /\ options.extrapolateLeft = "clamp" THEN inputMin
            ELSE IF Lt(inputMax, input) /\ options.extrapolateRight = "clamp" THEN inputMax
            ELSE input
    IN  IF outputMin = outputMax THEN outputMin
        ELSE Add(Mul(Div(Sub(result, inputMin), Sub(inputMax, inputMin)),
                     Sub(outputMax, outputMin)),
                 outputMin)

\* interpolate(input, inputRange, outputRange, options): throws on ranges of
\* different lengths, with fewer than two elements, with a non-finite
\* element, or with an input range that is not strictly increasing.
InterpolateSegment(input, inputRange, outputRange, options, range) ==
    Returned(interpolateFunction(input,
        inputRange[range + 1], inputRange[range + 2],
        outputRange[range + 1], outputRange[range + 2], options))

interpolate(input, inputRange, outputRange, options) ==
    IF \/ Len(inputRange) # Len(outputRange)
       \/ ~checkInfiniteRange(inputRange)
       \/ ~checkInfiniteRange(outputRange)
       \/ ~checkValidInputRange(inputRange)
    THEN Thrown
    ELSE InterpolateSegment(input, inputRange, outputRange, options,
                            findRange(input, inputRange))

\* ------------------------------------------------------------------------
\* interpolateColors, imported from remotion (VideoPlayer.tsx 3)
\* ------------------------------------------------------------------------

\* processColor: the colour strings the model writes, as <<red, green, blue>>
\* (all opaque); any other string is an invalid colour and throws.
ColorTable ==
    [name \in {"red", "blue", "white", "#336699"} |->
        CASE name = "red" -> <<255, 0, 0>>
          [] name = "blue" -> <<0, 0, 255>>
          [] name = "white" -> <<255, 255, 255>>
          [] name = "#336699" -> <<51, 102, 153>>]

\* Math.round: the nearest integer, a half rounded up.
Round(x) == (2 * x[1] + x[2]) \div (2 * x[2])

\* interpolateColors(input, inputRange, outputRange): every channel is
\* interpolated with both sides clamped and rounded; the result is written
\* rgba(r, g, b, a).
RECURSIVE ColorChannels(_, _, _, _)
ColorChannels(input, inputRange, colors, c) ==
    IF c > 3 THEN <<>>
    ELSE <<interpolate(input, inputRange,
                       [i \in 1..Len(colors) |-> OfInt(colors[i][c])], Clamp)>>
         \o ColorChannels(input, inputRange, colors, c + 1)

RgbaString(channels) ==
    IF ~channels[1].ok THEN Thrown
    ELSE Returned("rgba(" \o ToString(Round(channels[1].value)) \o ", "
                  \o ToString(Round(channels[2].value)) \o ", "
                  \o ToString(Round(channels[3].value)) \o ", 1)")

interpolateColors(input, inputRange, outputRange) ==
    IF \/ Len(inputRange) # Len(outputRange)
       \/ \E i \in 1..Len(outputRange) : outputRange[i] \notin DOMAIN ColorTable
    THEN Thrown
    ELSE RgbaString(ColorChannels(input, inputRange,
             [i \in 1..Len(outputRange) |-> ColorTable[outputRange[i]]], 1))

\* ------------------------------------------------------------------------
\* Style values and keyframes (types.ts 6-9)
\* ------------------------------------------------------------------------

\* A style value: absent, a number, a string or null.
Undefined == [t |-> "undefined"]

Null == [t |-> "null"]

N(x) == [t |-> "number", v |-> x]

S(str) == [t |-> "string", s |-> str]

\* The animatable properties the model carries (AnimatableCSSProperties).
Props == {"opacity", "color", "backgroundColor", "transform", "filter", "width"}

\* The style {}: no property defined.
EmptyStyle ==
    [opacity |-> Undefined, color |-> Undefined, backgroundColor |-> Undefined,
     transform |-> Undefined, filter |-> Undefined, width |-> Undefined]

\* String(v) of a defined style value.
String(v) ==
    CASE v.t = "number" -> NumToString(v.v)
      [] v.t = "string" -> v.s
      [] v.t = "null" -> "null"

\* [...keyframes].sort((a, b) => a.at - b.at): a stable sort by at.
RECURSIVE InsertSorted(_, _)
InsertSorted(sorted, kf) ==
    IF sorted = <<>> THEN <<kf>>
    ELSE IF Lt(kf.at, Head(sorted).at) THEN <<kf>> \o sorted
    ELSE <<Head(sorted)>> \o InsertSorted(Tail(sorted), kf)

RECURSIVE SortKeyframes(_)
SortKeyframes(kfs) ==
    IF kfs = <<>> THEN <<>>
    ELSE InsertSorted(SortKeyframes(SubSeq(kfs, 1, Len(kfs) - 1)), kfs[Len(kfs)])

\* sortedKeyframes.filter(kf => kf.style[prop] !== undefined)
RECURSIVE KeyframesForProp(_, _)
KeyframesForProp(sortedKeyframes, prop) ==
    IF sortedKeyframes = <<>> THEN <<>>
    ELSE (IF Head(sortedKeyframes).style[prop] # Undefined
          THEN <<Head(sortedKeyframes)>> ELSE <<>>)
         \o KeyframesForProp(Tail(sortedKeyframes), prop)

\* As InputRange, with the positions left as fractions of the scene.
InputRangeUnscaled(kfs, duration) ==
    [i \in 1..Len(kfs) |-> kfs[i].at]

\* keyframesForProp.map(kf => kf.at * duration)
InputRange(kfs, duration) ==
    [i \in 1..Len(kfs) |-> Mul(kfs[i].at, OfInt(duration))]

\* ------------------------------------------------------------------------
\* useAnimatedStyle (VideoPlayer.tsx 27-112)
\* ------------------------------------------------------------------------

\* kf.style.opacity ?? 1
OrOne(o) == IF o = Null THEN N(OfInt(1)) ELSE o

\* As OpacityBranch, without the clamp options.
OpacityBranchUnclamped(keyframesForProp, frame, duration) ==
    interpolate(OfInt(frame), InputRange(keyframesForProp, duration),
        [i \in 1..Len(keyframesForProp) |->
            parseFloat(String(OrOne(keyframesForProp[i].style.opacity)))],
        Extend)

\* The opacity branch (lines 50-55): outputRange is
\* parseFloat(String(opacity ?? 1)) of every keyframe, interpolated with both
\* sides clamped.
OpacityBranch(keyframesForProp, frame, duration) ==
    interpolate(OfInt(frame), InputRange(keyframesForProp, duration),
        [i \in 1..Len(keyframesForProp) |->
            parseFloat(String(OrOne(keyframesForProp[i].style.opacity)))],
        Clamp)

\* The color / backgroundColor branch (lines 56-58).
ColorBranch(prop, keyframesForProp, frame, duration) ==
    interpolateColors(OfInt(frame), InputRange(keyframesForProp, duration),
        [i \in 1..Len(keyframesForProp) |-> String(keyframesForProp[i].style[prop])])

\* parseTransform(kf.style.transform) (lines 62, 75).  The parser is a
\* function of the string alone; its results for the transform strings the
\* storyboards hold are computed once and looked up at every call.
TransformStrings ==
    << "translateX(0px) scale(1)", "translateX(100px)", "rotate(90) scale(2)",
       "translateX(50%) rotateY(1.5turn)", "scale(3)",
       "none", "scale(abc) rotate(45deg)", "translateX(px10)", "" >>

RECURSIVE ParseAll(_)
ParseAll(strs) ==
    IF strs = <<>> THEN <<>>
    ELSE <<parseTransform(Head(strs))>> \o ParseAll(Tail(strs))

ParsedStrings == ParseAll(TransformStrings)

ParsedTransform(kf) ==
    IF kf.style.transform.t # "string" THEN <<>>
    ELSE ParsedStrings[CHOOSE i \in 1..Len(TransformStrings) :
                          TransformStrings[i] = kf.style.transform.s]

\* new Set() filled with the keys of every parsed keyframe, in first-seen order.
RECURSIVE AddAll(_, _)
AddAll(set, keys) ==
    IF keys = <<>> THEN set
    ELSE AddAll(IF \E i \in 1..Len(set) : set[i] = Head(keys)
                THEN set ELSE Append(set, Head(keys)),
                Tail(keys))

RECURSIVE AllFuncs(_, _)
AllFuncs(keyframesForProp, set) ==
    IF keyframesForProp = <<>> THEN set
    ELSE AllFuncs(Tail(keyframesForProp),
                  AddAll(set, Keys(ParsedTransform(Head(keyframesForProp)))))

defaultValue(func) == IF Includes(func, "scale") THEN OfInt(1) ELSE OfInt(0)

defaultUnit(func) ==
    IF Includes(func, "rotate") THEN "deg"
    ELSE IF Includes(func, "translate") THEN "px"
    ELSE ""

\* The body of sortedKeyframes.forEach for one keyframe and one func (lines
\* 75-89).  acc holds lastValue (hasValue: it is not undefined), lastUnit and
\* the two ranges built so far; entry is parsed[func]; unit is lastUnit after
\* line 79, dflt the func's default unit.
ChannelPush(acc, position, value, unit) ==
    [hasValue |-> TRUE, lastValue |-> value, hasUnit |-> TRUE, lastUnit |-> unit,
     funcInputRange |-> Append(acc.funcInputRange, position),
     funcOutputRange |-> Append(acc.funcOutputRange, value)]

\* As ChannelStep, with a channel the keyframe omits reset to its default.
ChannelStepReset(func, acc, position, entry, unit, dflt) ==
    IF entry.found
    THEN ChannelPush(acc, position, entry.value,
                     IF unit = dflt THEN entry.unit ELSE unit)
    ELSE ChannelPush(acc, position, defaultValue(func), unit)

\* As ChannelStep, with the unit of every defining keyframe replacing the
\* unit taken before.
ChannelStepLastUnit(func, acc, position, entry, unit, dflt) ==
    IF entry.found
    THEN ChannelPush(acc, position, entry.value, entry.unit)
    ELSE ChannelPush(acc, position,
                     IF ~acc.hasValue THEN defaultValue(func) ELSE acc.lastValue,
                     unit)

ChannelStep(func, acc, position, entry, unit, dflt) ==
    IF entry.found
    THEN ChannelPush(acc, position, entry.value,
                     IF unit = dflt THEN entry.unit ELSE unit)
    ELSE ChannelPush(acc, position,
                     IF ~acc.hasValue THEN defaultValue(func) ELSE acc.lastValue,
                     unit)

RECURSIVE ChannelScan(_, _, _, _)
ChannelScan(func, sortedKeyframes, duration, acc) ==
    IF sortedKeyframes = <<>> THEN acc
    ELSE ChannelScan(func, Tail(sortedKeyframes), duration,
             ChannelStep(func, acc,
                 Mul(Head(sortedKeyframes).at, OfInt(duration)),
                 Lookup(ParsedTransform(Head(sortedKeyframes)), func),
                 IF acc.hasUnit THEN acc.lastUnit ELSE defaultUnit(func),
                 defaultUnit(func)))

Channel(func, sortedKeyframes, duration) ==
    ChannelScan(func, sortedKeyframes, duration,
        [hasValue |-> FALSE, lastValue |-> OfInt(0), hasUnit |-> FALSE,
         lastUnit |-> "", funcInputRange |-> <<>>, funcOutputRange |-> <<>>])

\* finalTransforms.join(' ')
RECURSIVE Join(_)
Join(strs) ==
    IF strs = <<>> THEN ""
    ELSE IF Len(strs) = 1 THEN strs[1]
    ELSE strs[1] \o " " \o Join(Tail(strs))

\* allFuncs.forEach (lines 67-96): the rendered term of every func, or a
\* throw of interpolate.  ch is the channel of the first func.
RECURSIVE FinalTransforms(_, _, _, _, _)
FinalTerm(allFuncs, sortedKeyframes, frame, duration, finalTransforms, func, lastUnit, interpolatedValue) ==
    IF ~interpolatedValue.ok THEN Thrown
    ELSE FinalTransforms(Tail(allFuncs), sortedKeyframes, frame, duration,
             Append(finalTransforms,
                 func \o "(" \o NumToString(interpolatedValue.value)
                      \o lastUnit \o ")"))

\* As FinalChannel, with the channel clamped to its first and last values.
FinalChannelClamped(allFuncs, sortedKeyframes, frame, duration, finalTransforms, ch) ==
    IF Len(ch.funcInputRange) > 1
    THEN FinalTerm(allFuncs, sortedKeyframes, frame, duration, finalTransforms,
             Head(allFuncs), ch.lastUnit,
             interpolate(OfInt(frame), ch.funcInputRange, ch.funcOutputRange, Clamp))
    ELSE FinalTransforms(Tail(allFuncs), sortedKeyframes, frame, duration,
                         finalTransforms)

FinalChannel(allFuncs, sortedKeyframes, frame, duration, finalTransforms, ch) ==
    IF Len(ch.funcInputRange) > 1
    THEN FinalTerm(allFuncs, sortedKeyframes, frame, duration, finalTransforms,
             Head(allFuncs), ch.lastUnit,
             interpolate(OfInt(frame), ch.funcInputRange, ch.funcOutputRange, Extend))
    ELSE FinalTransforms(Tail(allFuncs), sortedKeyframes, frame, duration,
                         finalTransforms)

FinalTransforms(allFuncs, sortedKeyframes, frame, duration, finalTransforms) ==
    IF allFuncs = <<>> THEN Returned(finalTransforms)
    ELSE FinalChannel(allFuncs, sortedKeyframes, frame, duration, finalTransforms,
                      Channel(Head(allFuncs), sortedKeyframes, duration))

\* The transform branch (lines 59-97).
JoinResult(terms) ==
    IF terms.ok THEN Returned(S(Join(terms.value))) ELSE Thrown

\* As TransformBranch, with only the keyframes that define transform as
\* breakpoints of the channels.
TransformBranchOwnKeyframes(sortedKeyframes, keyframesForProp, frame, duration) ==
    JoinResult(FinalTransforms(AllFuncs(keyframesForProp, <<>>), keyframesForProp,
                               frame, duration, <<>>))

TransformBranch(sortedKeyframes, keyframesForProp, frame, duration) ==
    JoinResult(FinalTransforms(AllFuncs(keyframesForProp, <<>>), sortedKeyframes,
                               frame, duration, <<>>))

\* The step branch (lines 98-107): the value of the last keyframe whose
\* position is at or before the frame, the first keyframe's before all.
RECURSIVE StepLoop(_, _, _, _, _)
StepLoop(prop, keyframesForProp, inputRange, frame, i) ==
    IF i = 0 THEN keyframesForProp[1].style[prop]
    ELSE IF Le(inputRange[i], OfInt(frame)) THEN keyframesForProp[i].style[prop]
    ELSE StepLoop(prop, keyframesForProp, inputRange, frame, i - 1)

\* As StepBranch, with a keyframe taking effect only after its position.
RECURSIVE StepLoopAfter(_, _, _, _, _)
StepLoopAfter(prop, keyframesForProp, inputRange, frame, i) ==
    IF i = 0 THEN keyframesForProp[1].style[prop]
    ELSE IF Lt(inputRange[i], OfInt(frame)) THEN keyframesForProp[i].style[prop]
    ELSE StepLoopAfter(prop, keyframesForProp, inputRange, frame, i - 1)

StepBranchAfter(prop, keyframesForProp, frame, duration) ==
    StepLoopAfter(prop, keyframesForProp, InputRange(keyframesForProp, duration),
                  frame, Len(keyframesForProp))

StepBranch(prop, keyframesForProp, frame, duration) ==
    StepLoop(prop, keyframesForProp, InputRange(keyframesForProp, duration),
             frame, Len(keyframesForProp))

\* finalStyle.opacity = <number>; finalStyle[prop] = <string>
NumberResult(r) == IF r.ok THEN Returned(N(r.value)) ELSE Thrown

StringResult(r) == IF r.ok THEN Returned(S(r.value)) ELSE Thrown

\* As ResolveKeyframes, with the single keyframe read from the unfiltered list.
ResolveKeyframesUnfiltered(prop, sortedKeyframes, keyframesForProp, frame, duration) ==
    IF Len(keyframesForProp) = 0 THEN Returned(Undefined)
    ELSE IF Len(keyframesForProp) = 1
         THEN Returned(sortedKeyframes[1].style[prop])
    ELSE IF prop = "opacity"
         THEN NumberResult(OpacityBranch(keyframesForProp, frame, duration))
    ELSE IF prop \in {"color", "backgroundColor"}
         THEN StringResult(ColorBranch(prop, keyframesForProp, frame, duration))
    ELSE IF prop = "transform"
         THEN TransformBranch(sortedKeyframes, keyframesForProp, frame, duration)
    ELSE Returned(StepBranch(prop, keyframesForProp, frame, duration))

\* The body of properties.forEach for one property (lines 39-108): the value
\* assigned to finalStyle[prop] (Undefined: none), or a throw.
ResolveKeyframes(prop, sortedKeyframes, keyframesForProp, frame, duration) ==
    IF Len(keyframesForProp) = 0 THEN Returned(Undefined)
    ELSE IF Len(keyframesForProp) = 1
         THEN Returned(keyframesForProp[1].style[prop])
    ELSE IF prop = "opacity"
         THEN NumberResult(OpacityBranch(keyframesForProp, frame, duration))
    ELSE IF prop \in {"color", "backgroundColor"}
         THEN StringResult(ColorBranch(prop, keyframesForProp, frame, duration))
    ELSE IF prop = "transform"
         THEN TransformBranch(sortedKeyframes, keyframesForProp, frame, duration)
    ELSE Returned(StepBranch(prop, keyframesForProp, frame, duration))

ResolveProp(prop, sortedKeyframes, frame, duration) ==
    ResolveKeyframes(prop, sortedKeyframes,
                     KeyframesForProp(sortedKeyframes, prop), frame, duration)

\* properties.forEach over the property names, in a fixed order.
PropList == <<"opacity", "color", "backgroundColor", "transform", "filter", "width">>

RECURSIVE ResolveAll(_, _, _, _)
ResolveAll(props, sortedKeyframes, frame, duration) ==
    IF props = <<>> THEN <<>>
    ELSE <<ResolveProp(Head(props), sortedKeyframes, frame, duration)>>
         \o ResolveAll(Tail(props), sortedKeyframes, frame, duration)

\* As FinalStyle, with an opacity no keyframe defines defaulted to 1.
FinalStyleDefaulted(r) ==
    IF \E i \in 1..Len(r) : ~r[i].ok THEN [threw |-> TRUE]
    ELSE [threw |-> FALSE,
          style |-> [opacity |-> IF r[1].value = Undefined THEN N(OfInt(1))
                                 ELSE r[1].value,
                     color |-> r[2].value,
                     backgroundColor |-> r[3].value, transform |-> r[4].value,
                     filter |-> r[5].value, width |-> r[6].value]]

\* finalStyle, or a throw when the body threw for a property.
FinalStyle(r) ==
    IF \E i \in 1..Len(r) : ~r[i].ok THEN [threw |-> TRUE]
    ELSE [threw |-> FALSE,
          style |-> [opacity |-> r[1].value, color |-> r[2].value,
                     backgroundColor |-> r[3].value, transform |-> r[4].value,
                     filter |-> r[5].value, width |-> r[6].value]]

\* The useMemo callback (lines 30-110): the resolved style, or a throw.
\* keyframes is <<>> both for an empty and for an absent (undefined) list.
AnimatedStyle(keyframes, frame, duration) ==
    IF Len(keyframes) < 1 THEN [threw |-> FALSE, style |-> EmptyStyle]
    ELSE FinalStyle(ResolveAll(PropList, SortKeyframes(keyframes), frame, duration))

\* The hook with its useMemo cell (lines 28-30, 111): the cell is kept when
\* the dependencies [frame, keyframes, duration] are those of the last
\* computation, and recomputed otherwise.  NoMemo is the cell of a component
\* that is not mounted.
NoMemo == [mounted |-> FALSE]

\* As useAnimatedStyle, with frame missing from the dependency list.
useAnimatedStyleStaleDeps(cell, frame, keyframes, duration) ==
    IF cell # NoMemo /\ cell.deps[2] = keyframes /\ cell.deps[3] = duration
    THEN cell
    ELSE [mounted |-> TRUE, deps |-> <<frame, keyframes, duration>>,
          value |-> AnimatedStyle(keyframes, frame, duration)]

useAnimatedStyle(cell, frame, keyframes, duration) ==
    IF cell # NoMemo /\ cell.deps = <<frame, keyframes, duration>>
    THEN cell
    ELSE [mounted |-> TRUE, deps |-> <<frame, keyframes, duration>>,
          value |-> AnimatedStyle(keyframes, frame, duration)]

\* ------------------------------------------------------------------------
\* SceneComponent, Animation, VideoPlayer (VideoPlayer.tsx 172-309)
\* ------------------------------------------------------------------------

DURATION_PER_SCENE == 90

TRANSITION_DURATION == 30

\* AnimatedElement (lines 115-152): the transform of the style the element
\* is drawn with.  finalStyle = {...baseStyle, ...animatedStyle} takes the
\* animated transform when the resolved style has the key, and the two are
\* joined, base first, when both are truthy (a non-empty string).
BaseTransform == "translate(-50%, -50%)"

Truthy(v) == v.t = "string" /\ v.s # ""

FinalStyleTransform(animatedStyle) ==
    IF Truthy(animatedStyle.transform)
    THEN S(BaseTransform \o " " \o animatedStyle.transform.s)
    ELSE IF animatedStyle.transform # Undefined THEN animatedStyle.transform
    ELSE S(BaseTransform)

\* What AnimatedElement draws from the cell of its hook: nothing when the
\* hook threw.
AnimatedElement(cell) ==
    IF cell = NoMemo THEN [mounted |-> FALSE]
    ELSE IF cell.value.threw THEN [mounted |-> TRUE, threw |-> TRUE]
    ELSE [mounted |-> TRUE, threw |-> FALSE,
          transform |-> FinalStyleTransform(cell.value.style)]

\* As getKenBurnsEffect, with the directions of even and odd scenes swapped.
getKenBurnsEffectSwapped(frame, duration, index) ==
    [scale |-> interpolate(Div(OfInt(frame), OfInt(duration)),
                   <<OfInt(0), OfInt(1)>>,
                   IF index % 2 = 1 THEN <<OfInt(1), Num(11, 10)>>
                                    ELSE <<Num(11, 10), OfInt(1)>>,
                   Extend).value,
     rotate |-> interpolate(Div(OfInt(frame), OfInt(duration)),
                   <<OfInt(0), OfInt(1)>>,
                   IF index % 2 = 1 THEN <<OfInt(-1), OfInt(1)>>
                                    ELSE <<OfInt(1), OfInt(-1)>>,
                   Extend).value]

\* getKenBurnsEffect (lines 164-170): the scale and the rotation, in
\* degrees, of `scale(${scale}) rotate(${rotate}deg)`.
getKenBurnsEffect(frame, duration, index) ==
    [scale |-> interpolate(Div(OfInt(frame), OfInt(duration)),
                   <<OfInt(0), OfInt(1)>>,
                   IF index % 2 = 0 THEN <<OfInt(1), Num(11, 10)>>
                                    ELSE <<Num(11, 10), OfInt(1)>>,
                   Extend).value,
     rotate |-> interpolate(Div(OfInt(frame), OfInt(duration)),
                   <<OfInt(0), OfInt(1)>>,
                   IF index % 2 = 0 THEN <<OfInt(-1), OfInt(1)>>
                                    ELSE <<OfInt(1), OfInt(-1)>>,
                   Extend).value]

\* useVideoConfig().durationInFrames in a component inside a Sequence (line
\* 175): remotion gives the duration of the enclosing Sequence.
SequenceDurationInFrames == DURATION_PER_SCENE + TRANSITION_DURATION

\* As SceneOpacity, with the first scene fading out before its end.
SceneOpacityEarlyFade(isFirst, isLast, frame, sceneDuration, transitionDuration) ==
    IF isFirst /\ isLast THEN OfInt(1)
    ELSE IF isFirst
    THEN interpolate(OfInt(frame),
             <<OfInt(sceneDuration - transitionDuration), OfInt(sceneDuration)>>,
             <<OfInt(1), OfInt(0)>>, Clamp).value
    ELSE interpolate(OfInt(frame), <<OfInt(0), OfInt(transitionDuration)>>,
             <<OfInt(0), OfInt(1)>>, Clamp).value

\* As SceneOpacity, with Math.max in place of Math.min.
SceneOpacityMax(isFirst, isLast, frame, sceneDuration, transitionDuration) ==
    IF isFirst /\ isLast THEN OfInt(1)
    ELSE IF isFirst
    THEN interpolate(OfInt(frame),
             <<OfInt(sceneDuration), OfInt(sceneDuration + transitionDuration)>>,
             <<OfInt(1), OfInt(0)>>, Clamp).value
    ELSE IF isLast
    THEN interpolate(OfInt(frame), <<OfInt(0), OfInt(transitionDuration)>>,
             <<OfInt(0), OfInt(1)>>, Clamp).value
    ELSE OfInt(1)

\* The opacity of a scene at its local frame (lines 176-187).
SceneOpacity(isFirst, isLast, frame, sceneDuration, transitionDuration) ==
    LET out == <<OfInt(sceneDuration), OfInt(sceneDuration + transitionDuration)>>
        start == <<OfInt(0), OfInt(transitionDuration)>>
        down == <<OfInt(1), OfInt(0)>>
        up == <<OfInt(0), OfInt(1)>>
    IN  IF isFirst /\ isLast THEN OfInt(1)
        ELSE IF isFirst THEN interpolate(OfInt(frame), out, down, Clamp).value
        ELSE IF isLast THEN interpolate(OfInt(frame), start, up, Clamp).value
        ELSE LET fadeIn == interpolate(OfInt(frame), start, up,
                     [extrapolateLeft |-> "extend", extrapolateRight |-> "clamp"]).value
                 fadeOut == interpolate(OfInt(frame), out, down,
                     [extrapolateLeft |-> "clamp", extrapolateRight |-> "extend"]).value
             IN  Min(fadeIn, fadeOut)

\* As SequenceFrom, with a new scene every half scene duration.
SequenceFromHalf(index) == index * (DURATION_PER_SCENE \div 2)

\* As SequenceFrom, with the scenes laid end to end.
SequenceFromNoOverlap(index) == index * (DURATION_PER_SCENE + TRANSITION_DURATION)

\* <Sequence from={index * DURATION_PER_SCENE} durationInFrames={...}>
\* (lines 243-247), index counted from 0: the first frame of the window and
\* whether the children are mounted at a frame of the master timeline.
SequenceFrom(index) == index * DURATION_PER_SCENE

\* As SequenceMounted, with the window a transition longer.
SequenceMountedLonger(index, masterFrame) ==
    /\ SequenceFrom(index) <= masterFrame
    /\ masterFrame < SequenceFrom(index) + DURATION_PER_SCENE + 2 * TRANSITION_DURATION

SequenceMounted(index, masterFrame) ==
    /\ SequenceFrom(index) <= masterFrame
    /\ masterFrame < SequenceFrom(index) + DURATION_PER_SCENE + TRANSITION_DURATION

\* As DurationInFrames, without the frames of the last transition.
DurationInFramesNoTransition(sceneList) ==
    IF Len(sceneList) > 0
    THEN Len(sceneList) * DURATION_PER_SCENE
    ELSE DURATION_PER_SCENE

\* DURATION of the Player (lines 286-288).
DurationInFrames(sceneList) ==
    IF Len(sceneList) > 0
    THEN Len(sceneList) * DURATION_PER_SCENE + TRANSITION_DURATION
    ELSE DURATION_PER_SCENE

\* ------------------------------------------------------------------------
\* The storyboards of the model
\* ------------------------------------------------------------------------

\* The most scenes and the most keyframes per element of a storyboard.
MaxScenes == 3

MaxKeyframes == 3

\* A keyframe {at, style}; the style names the properties it defines.
Keyframe(at, style) == [at |-> at, style |-> style @@ EmptyStyle]

\* The keyframes elements are made of.  An element takes its keyframes from
\* one pool, in the pool's order, which is not the order of at.
NumericPool ==
    << Keyframe(Num(1, 5), [opacity |-> N(OfInt(0))]),
       Keyframe(Num(4, 5), [opacity |-> N(OfInt(1))]),
       Keyframe(Num(1, 2), [opacity |-> N(Num(3, 10)), filter |-> S("blur(10px)")]),
       Keyframe(OfInt(0), [filter |-> S("blur(0px)"), color |-> S("red")]),
       Keyframe(OfInt(1), [opacity |-> S("0.5"), color |-> S("blue"),
                           width |-> S("100px")]),
       Keyframe(Num(1, 2), [opacity |-> N(OfInt(1)), width |-> S("50%"),
                            backgroundColor |-> S("white")]) >>

TransformPool ==
    << Keyframe(OfInt(0), [transform |-> S(TransformStrings[1])]),
       Keyframe(OfInt(1), [transform |-> S(TransformStrings[2])]),
       Keyframe(Num(1, 2), [opacity |-> N(Num(1, 2))]),
       Keyframe(Num(1, 5), [transform |-> S(TransformStrings[3])]),
       Keyframe(Num(4, 5), [transform |-> S(TransformStrings[4]),
                            filter |-> S("none")]),
       Keyframe(Num(1, 2), [transform |-> S(TransformStrings[5]),
                            backgroundColor |-> S("#336699")]) >>

\* Keyframes as a language model may write them: a transform of "none", of
\* terms that are not name(number unit), an empty one; an opacity of null
\* or of a string that is no number.
EdgePool ==
    << Keyframe(OfInt(0), [transform |-> S(TransformStrings[6]), opacity |-> Null]),
       Keyframe(OfInt(1), [transform |-> S(TransformStrings[7]),
                           opacity |-> N(Num(1, 2))]),
       Keyframe(Num(1, 2), [opacity |-> S("abc"), filter |-> S("blur(4px)")]),
       Keyframe(Num(1, 2), [transform |-> S(TransformStrings[8]),
                            filter |-> S("none")]),
       Keyframe(Num(1, 5), [transform |-> S(TransformStrings[9])]) >>

Pools == {NumericPool, TransformPool, EdgePool}

\* The members of a pool with the given indices, in pool order.
RECURSIVE Pick(_, _, _)
Pick(pool, indices, i) ==
    IF i > Len(pool) THEN <<>>
    ELSE (IF i \in indices THEN <<pool[i]>> ELSE <<>>) \o Pick(pool, indices, i + 1)

KeyframeListsOf(pool) ==
    { Pick(pool, indices, 1) :
        indices \in {x \in SUBSET (1..Len(pool)) : Cardinality(x) <= MaxKeyframes} }

KeyframeLists == UNION { KeyframeListsOf(pool) : pool \in Pools }

\* The keyframe lists of the storyboards with several scenes.
SharedKeyframeLists ==
    { <<NumericPool[1], NumericPool[2]>>,
      <<TransformPool[1], TransformPool[2], TransformPool[3]>> }

\* A storyboard: its scenes, each with one animated element.
Storyboards ==
    { [i \in 1..n |-> [keyframes |-> kfs]] :
        n \in 0..MaxScenes, kfs \in SharedKeyframeLists }
    \cup { <<[keyframes |-> kfs]>> : kfs \in KeyframeLists }

\* The frames a user scrubs to with the Player's controls.
SeekFrames == {0, 45, 105, 195}

\* ------------------------------------------------------------------------
\* State
\* ------------------------------------------------------------------------

VARIABLES
    scenes,     \* videoResult.scenes, read-only input of the player
    frame,      \* the Player's current frame of the master timeline
    memo,       \* per scene: the useMemo cell of its element's useAnimatedStyle
    rendered,   \* what Animation rendered: the placeholder, or per scene the
                \* local frame, the opacity and the image transforms of a
                \* mounted SceneComponent
    elements,   \* per scene: what its AnimatedElement drew
    crashed,    \* a render threw: React unmounted the tree
    fetch,      \* one call of fetchWithRetry (api handler)
    gen,        \* one request served by the generation handler
    proxy,      \* the module state of api/proxy.ts and its callers
    client,     \* one handleGenerate of the streaming App and its stream
    app         \* the App of ai-motion-studio/App.tsx and its generations

vars == <<scenes, frame, memo, rendered, elements, crashed,
          fetch, gen, proxy, client, app>>

\* The player's variables, and those of the generation pipeline around it.
playerVars == <<scenes, frame, memo, rendered, elements, crashed>>

pipelineVars == <<fetch, gen, proxy, client, app>>

\* A part of the system that is not running in the specification at hand.
Idle == [pc |-> "idle"]

PipelineIdle ==
    /\ fetch = Idle
    /\ gen = Idle
    /\ proxy = Idle
    /\ client = Idle
    /\ app = Idle

Unmounted == [mounted |-> FALSE]

\* The hook cells after rendering the master frame f: a scene outside its
\* Sequence window has no component and no cell, a scene that stays mounted
\* keeps its cell between renders.
RenderMemo(sceneList, f, cells) ==
    [i \in 1..Len(sceneList) |->
        IF SequenceMounted(i - 1, f)
        THEN useAnimatedStyle(cells[i], f - SequenceFrom(i - 1),
                              sceneList[i].keyframes, DURATION_PER_SCENE)
        ELSE NoMemo]

\* SceneComponent in its Sequence (lines 172-219, 243-257): nothing outside
\* the window, else the local frame, the opacity and the image transforms.
SceneComponent(sceneList, f, i) ==
    IF SequenceMounted(i - 1, f)
    THEN [mounted |-> TRUE,
          frame |-> f - SequenceFrom(i - 1),
          opacity |-> SceneOpacity(i - 1 = 0, i - 1 = Len(sceneList) - 1,
                          f - SequenceFrom(i - 1),
                          DURATION_PER_SCENE, TRANSITION_DURATION),
          imageTransforms |->
              getKenBurnsEffect(f - SequenceFrom(i - 1),
                                SequenceDurationInFrames, i - 1)]
    ELSE Unmounted

\* As RenderAnimation, without the early return for no scenes.
RenderAnimationNoPlaceholder(sceneList, f) ==
    [placeholder |-> FALSE,
     scenes |-> [i \in 1..Len(sceneList) |-> SceneComponent(sceneList, f, i)]]

\* Animation (lines 225-261): the placeholder for no scenes, else every
\* scene in its Sequence with isFirst, isLast and its local frame.
RenderAnimation(sceneList, f) ==
    IF Len(sceneList) = 0
    THEN [placeholder |-> TRUE, scenes |-> <<>>]
    ELSE [placeholder |-> FALSE,
          scenes |-> [i \in 1..Len(sceneList) |-> SceneComponent(sceneList, f, i)]]

\* scene.animationElements.map (lines 212-214), one element per scene.
RenderElements(cells) == [i \in 1..Len(cells) |-> AnimatedElement(cells[i])]

Threw(cells) == \E i \in 1..Len(cells) : cells[i] # NoMemo /\ cells[i].value.threw

\* One render of the tree at master frame f.
Commit(f, cells) ==
    /\ frame' = f
    /\ memo' = cells
    /\ rendered' = RenderAnimation(scenes, f)
    /\ elements' = RenderElements(cells)
    /\ crashed' = Threw(cells)
    /\ UNCHANGED <<scenes, pipelineVars>>

Render(f) == Commit(f, RenderMemo(scenes, f, memo))

Init ==
    /\ scenes \in Storyboards
    /\ frame = 0
    /\ memo = RenderMemo(scenes, 0, [i \in 1..Len(scenes) |-> NoMemo])
    /\ rendered = RenderAnimation(scenes, 0)
    /\ elements = RenderElements(memo)
    /\ crashed = Threw(memo)
    /\ PipelineIdle

\* The Player advances one frame and loops at the end (loop, autoPlay).
Tick ==
    /\ ~crashed
    /\ Render((frame + 1) % DurationInFrames(scenes))

\* The user scrubs to a frame.
Seek(f) ==
    /\ ~crashed
    /\ f < DurationInFrames(scenes)
    /\ Render(f)

\* React renders the tree again at the same frame.
Rerender ==
    /\ ~crashed
    /\ Render(frame)

Next ==
    \/ Tick
    \/ \E f \in SeekFrames : Seek(f)
    \/ Rerender

Spec == Init /\ [][Next]_vars

\* The player at rest: no storyboard, nothing rendered.
PlayerIdle ==
    /\ scenes = <<>>
    /\ frame = 0
    /\ memo = <<>>
    /\ rendered = RenderAnimation(<<>>, 0)
    /\ elements = <<>>
    /\ crashed = FALSE

\* ------------------------------------------------------------------------
\* fetchWithRetry (api handler, lines 55-78)
\* ------------------------------------------------------------------------

API_RETRY_COUNT == 3

API_RETRY_DELAY_MS == 1000

\* The most attempts a caller asks for.
MaxRetries == 3

\* What one fetch ends in: a response with its status, or a rejection
\* (status 0) when the network fails.
NetworkFailure == 0

FetchOutcomes == {200, 204, 304, 404, 429, 500, NetworkFailure}

\* Response.ok
ResponseOk(status) == status >= 200 /\ status <= 299

\* The error that the try block of one attempt ends in (lines 62-66), or the
\* rejection of fetch itself.
AttemptError(status) ==
    IF status = NetworkFailure
    THEN [kind |-> "network", status |-> status]
    ELSE IF status >= 400 /\ status < 500
         THEN [kind |-> "client", status |-> status]
         ELSE [kind |-> "status", status |-> status]

\* The error of line 77.
AllAttemptsFailed == [kind |-> "exhausted", status |-> 0]

NoError == [kind |-> "none", status |-> 0]

RECURSIVE Pow2(_)
Pow2(n) == IF n = 0 THEN 1 ELSE 2 * Pow2(n - 1)

\* As BackoffDelay, without the exponent.
BackoffDelayFlat(delay, i) == delay

\* delay * Math.pow(2, i) (line 71)
BackoffDelay(delay, i) == delay * Pow2(i)

\* The call fetchWithRetry(url, options, retries, delay) at the head of its
\* loop.
FetchCall(retries, delay) ==
    [pc |-> "loop", retries |-> retries, delay |-> delay, i |-> 0,
     attempts |-> <<>>, slept |-> <<>>, response |-> 0, error |-> NoError]

\* The catch block of attempt i (lines 67-74).
FetchCatch(f, status) ==
    IF f.i = f.retries - 1
    THEN [f EXCEPT !.pc = "thrown",
                   !.attempts = Append(@, status),
                   !.error = AttemptError(status)]
    ELSE [f EXCEPT !.pc = "sleep",
                   !.attempts = Append(@, status),
                   !.slept = Append(@, BackoffDelay(f.delay, f.i))]

\* One pass of the loop body once fetch has settled (lines 56-74).
FetchSettled(f, status) ==
    IF ResponseOk(status)
    THEN [f EXCEPT !.pc = "returned",
                   !.attempts = Append(@, status),
                   !.response = status]
    ELSE FetchCatch(f, status)

\* fetch settles with a response or a rejection.
FetchAttempt(status) ==
    /\ fetch.pc = "loop"
    /\ fetch.i < fetch.retries
    /\ fetch' = FetchSettled(fetch, status)
    /\ UNCHANGED <<playerVars, gen, proxy, client, app>>

\* The backoff sleep is over: i++ and the next pass (lines 73, 56).
FetchWake ==
    /\ fetch.pc = "sleep"
    /\ fetch' = [fetch EXCEPT !.pc = "loop", !.i = @ + 1]
    /\ UNCHANGED <<playerVars, gen, proxy, client, app>>

\* The loop ends without a return or a throw (line 77).
FetchFallThrough ==
    /\ fetch.pc = "loop"
    /\ fetch.i >= fetch.retries
    /\ fetch' = [fetch EXCEPT !.pc = "thrown", !.error = AllAttemptsFailed]
    /\ UNCHANGED <<playerVars, gen, proxy, client, app>>

FetchInit ==
    /\ PlayerIdle
    /\ fetch \in { FetchCall(r, d) : r \in 0..MaxRetries,
                                     d \in {API_RETRY_DELAY_MS, 250} }
    /\ gen = Idle
    /\ proxy = Idle
    /\ client = Idle
    /\ app = Idle

FetchNext ==
    \/ \E status \in FetchOutcomes : FetchAttempt(status)
    \/ FetchWake
    \/ FetchFallThrough

\* Every fetch settles and every timer fires.
FetchSpec == FetchInit /\ [][FetchNext]_vars /\ WF_vars(FetchNext)

\* ------------------------------------------------------------------------
\* The generation handler and internalGenerateVideo (api handler,
\* lines 167-392 and 403-449)
\* ------------------------------------------------------------------------

\* DURATION_PER_SCENE of the handler, in seconds.
HANDLER_DURATION_PER_SCENE == 3

\* The most scene ideas the model returns.
MaxIdeas == 3

\* config.duration of the requests.
Durations == {5, 9}

\* What the model returns for one scene: an object with an image_prompt, an
\* object without one, or the JSON value null.
SceneData == {"image", "plain", "null"}

\* Math.max(2, Math.ceil(duration / DURATION_PER_SCENE)) (line 180)
SceneCount(duration) ==
    IF (duration + HANDLER_DURATION_PER_SCENE - 1) \div HANDLER_DURATION_PER_SCENE > 2
    THEN (duration + HANDLER_DURATION_PER_SCENE - 1) \div HANDLER_DURATION_PER_SCENE
    ELSE 2

\* totalSteps (line 183)
TotalSteps(sceneCount, generateNarration) ==
    2 + (sceneCount * 2) + (IF generateNarration THEN 1 ELSE 0)

ProgressEvent(step, totalSteps) ==
    [type |-> "progress", step |-> step, totalSteps |-> totalSteps]

ResultEvent == [type |-> "result", step |-> 0, totalSteps |-> 0]

ErrorEvent == [type |-> "error", step |-> 0, totalSteps |-> 0]

\* A request reaches the handler.  The repository holds two versions of
\* the handler: version 1 calls generateVideo, which asks the model for the
\* whole storyboard at once, version 2 calls internalGenerateVideo.
HandlerRequest(version, method, body, duration, generateNarration) ==
    [pc |-> "request", version |-> version, method |-> method, body |-> body,
     duration |-> duration, generateNarration |-> generateNarration,
     response |-> 0, stream |-> <<>>, closed |-> FALSE,
     totalSteps |-> 0, currentStep |-> 0,
     ideas |-> 0, storyboard |-> <<>>, i |-> 0, pending |-> {}]

\* onProgress of the handler (lines 418-420): controller.enqueue.
onProgress(g, step) ==
    [g EXCEPT !.stream = Append(@, ProgressEvent(step, g.totalSteps))]

\* currentStep++; onProgress({step: currentStep, ...}) (lines 187-188,
\* 236-237, 273-274, 380-381)
StepAndReport(g) ==
    [onProgress(g, g.currentStep + 1) EXCEPT !.currentStep = g.currentStep + 1]

\* As GenerationFailed, leaving the stream open.
GenerationFailedOpen(g) ==
    [g EXCEPT !.pc = "closed", !.stream = Append(@, ErrorEvent)]

\* internalGenerateVideo threw: the catch and the finally of start
\* (lines 425-431).
GenerationFailed(g) ==
    [g EXCEPT !.pc = "closed", !.stream = Append(@, ErrorEvent),
              !.closed = TRUE]

\* internalGenerateVideo returned (lines 424, 430).
GenerationReturned(g) ==
    [g EXCEPT !.pc = "closed", !.stream = Append(@, ResultEvent),
              !.closed = TRUE]

\* The synchronous head of the image tasks in storyboard.map (lines 319-326,
\* 365-369), from scene k on: each counts its step, then reports it, and a
\* task whose sceneSpec is null throws on sceneSpec.image_prompt before it
\* reports.
RECURSIVE StartImageTasks(_, _)
StartImageTasks(g, k) ==
    IF k > Len(g.storyboard)
    THEN g
    ELSE StartImageTasks(
             IF g.storyboard[k] = "null"
             THEN [g EXCEPT !.currentStep = @ + 1]
             ELSE StepAndReport(g),
             k + 1)

\* Promise.all over the started tasks (lines 319-377): it rejects when a task
\* threw, else every task awaits its image or its sleep.
AwaitImageTasks(g) ==
    IF \E k \in 1..Len(g.storyboard) : g.storyboard[k] = "null"
    THEN GenerationFailed(g)
    ELSE [g EXCEPT !.pc = "images", !.pending = 1..Len(g.storyboard)]

GenerateImages(g) == AwaitImageTasks(StartImageTasks(g, 1))

\* STEP 3 up to its await (lines 272-307): the step is reported, then the
\* prompt reads s.animationElements of every scene, outside of any try.
WriteNarration(g) ==
    IF \E k \in 1..Len(g.storyboard) : g.storyboard[k] = "null"
    THEN GenerationFailed(g)
    ELSE [g EXCEPT !.pc = "narration"]

\* After the last scene was designed (lines 268-319).
AfterStoryboard(g) ==
    IF g.generateNarration
    THEN WriteNarration(StepAndReport(g))
    ELSE GenerateImages(g)

\* The head of one pass of the scene loop (lines 234-245).
DesignScene(g) == [StepAndReport(g) EXCEPT !.pc = "scene"]

\* internalGenerateVideo up to its first await (lines 179-205).
InternalGenerateVideoStart(g) ==
    [StepAndReport(
        [g EXCEPT !.totalSteps = TotalSteps(SceneCount(g.duration),
                                            g.generateNarration)])
     EXCEPT !.pc = "ideas"]

\* totalSteps of generateVideo (version 1, line 98)
TotalStepsOfStoryboard(sceneCount, generateNarration) ==
    2 + sceneCount + (IF generateNarration THEN 1 ELSE 0)

\* generateVideo up to its first await (version 1, lines 96-113).
GenerateVideoStart(g) ==
    [onProgress(
        [g EXCEPT !.totalSteps =
                      TotalStepsOfStoryboard(SceneCount(g.duration),
                                             g.generateNarration)], 1)
     EXCEPT !.pc = "storyboard"]

\* The scene kinds of version 1: as SceneData, and a scene without
\* image_prompt that holds an element of type image with its own prompt.
StoryboardSceneData == SceneData \cup {"element"}

RECURSIVE SeqsUpTo(_, _)
SeqsUpTo(items, n) ==
    IF n = 0
    THEN {<<>>}
    ELSE SeqsUpTo(items, n - 1)
         \cup { Append(q, x) :
                  q \in { r \in SeqsUpTo(items, n - 1) : Len(r) = n - 1 },
                  x \in items }

\* JSON.parse(storyboardResponseText).scenes (version 1, line 137)
ParsedStoryboards == SeqsUpTo(StoryboardSceneData, MaxIdeas)

\* No storyboard: the call threw, the text is no JSON, or it has no scenes
\* (version 1, lines 130-142).
NoStoryboard == <<"failed">>

\* The last progress event of generateVideo and its sleep (version 1,
\* lines 259-260).
GenerateVideoFinish(g) ==
    [onProgress(g, g.totalSteps) EXCEPT !.pc = "finalizing"]

\* The element loop of generateVideo at scene g.i, up to its next await
\* (version 1, lines 229-257): an image element reports totalSteps and
\* awaits its image, every scene ends in sleep(250).
ElementLoop(g) ==
    IF g.i >= Len(g.storyboard)
    THEN GenerateVideoFinish(g)
    ELSE IF g.storyboard[g.i + 1] = "element"
         THEN [onProgress(g, g.totalSteps) EXCEPT !.pc = "elementimage"]
         ELSE [g EXCEPT !.pc = "elementsleep"]

\* The scene loop of generateVideo at scene g.i, up to its next await
\* (version 1, lines 181-226): a scene with image_prompt reports step
\* i + imageGenStepStart and awaits its image, another one sleeps; reading
\* image_prompt of null throws.
SceneLoop(g) ==
    IF g.i >= Len(g.storyboard)
    THEN ElementLoop([g EXCEPT !.i = 0])
    ELSE IF g.storyboard[g.i + 1] = "null"
         THEN GenerationFailed(g)
         ELSE IF g.storyboard[g.i + 1] = "image"
              THEN [onProgress(g, g.i + 2
                                  + (IF g.generateNarration THEN 1 ELSE 0))
                    EXCEPT !.pc = "sceneloop"]
              ELSE [g EXCEPT !.pc = "sceneloop"]

\* The narration step of generateVideo up to its await (version 1,
\* lines 145-172).
StoryboardNarration(g) ==
    IF \E k \in 1..Len(g.storyboard) : g.storyboard[k] = "null"
    THEN GenerationFailed(g)
    ELSE [g EXCEPT !.pc = "storyboardnarration"]

\* generateVideo once the storyboard is parsed (version 1, lines 144-183).
AfterParse(g) ==
    IF g.generateNarration
    THEN StoryboardNarration(onProgress(g, 2))
    ELSE SceneLoop(g)

\* handler up to the first await of the generation (lines 403-423; version
\* 1, lines 274-294).
HandlerStart(g) ==
    IF g.method # "POST"
    THEN [g EXCEPT !.pc = "responded", !.response = 405]
    ELSE IF g.body # "ok"
         THEN [g EXCEPT !.pc = "responded", !.response = 400]
         ELSE IF g.version = 1
              THEN GenerateVideoStart([g EXCEPT !.response = 200])
              ELSE InternalGenerateVideoStart([g EXCEPT !.response = 200])

\* The handler takes the request.
Handle ==
    /\ gen.pc = "request"
    /\ gen' = HandlerStart(gen)
    /\ UNCHANGED <<playerVars, fetch, proxy, client, app>>

\* The scene ideas arrive (lines 220-228): n ideas, or a failure of the call
\* or of its parsing (n = -1).
IdeasSettle(n) ==
    /\ gen.pc = "ideas"
    /\ gen' = IF n <= 0
              THEN GenerationFailed(gen)
              ELSE DesignScene([gen EXCEPT !.ideas = n])
    /\ UNCHANGED <<playerVars, fetch, proxy, client, app>>

\* The data of one scene arrives (lines 260-268), or its call fails.
SceneSettle(data) ==
    /\ gen.pc = "scene"
    /\ gen' = IF data = "failed"
              THEN GenerationFailed(gen)
              ELSE IF Len(gen.storyboard) + 1 < gen.ideas
                   THEN DesignScene(
                            [gen EXCEPT !.storyboard = Append(@, data)])
                   ELSE AfterStoryboard(
                            [gen EXCEPT !.storyboard = Append(@, data)])
    /\ UNCHANGED <<playerVars, fetch, proxy, client, app>>

\* The narration arrives or its call fails (lines 309-314): either way the
\* images come next.
NarrationSettle ==
    /\ gen.pc = "narration"
    /\ gen' = GenerateImages(gen)
    /\ UNCHANGED <<playerVars, fetch, proxy, client, app>>

\* STEP 5 up to its sleep (lines 380-382).
FinishImages(g) ==
    IF g.pending = {}
    THEN [StepAndReport(g) EXCEPT !.pc = "finalizing"]
    ELSE g

\* The task of scene k ends, with an image or without (lines 343-375), in
\* any order among the tasks.
ImageSettle(k) ==
    /\ gen.pc = "images"
    /\ k \in gen.pending
    /\ gen' = FinishImages([gen EXCEPT !.pending = @ \ {k}])
    /\ UNCHANGED <<playerVars, fetch, proxy, client, app>>

\* The storyboard of version 1 arrives (lines 113-142): a list of scenes, or
\* the call, the parsing or the scenes property fails.
StoryboardSettle(storyboard) ==
    /\ gen.pc = "storyboard"
    /\ gen' = IF storyboard = NoStoryboard
              THEN GenerationFailed(gen)
              ELSE AfterParse([gen EXCEPT !.storyboard = storyboard])
    /\ UNCHANGED <<playerVars, fetch, proxy, client, app>>

\* The narration of version 1 arrives or fails (lines 165-177).
StoryboardNarrationSettle ==
    /\ gen.pc = "storyboardnarration"
    /\ gen' = SceneLoop(gen)
    /\ UNCHANGED <<playerVars, fetch, proxy, client, app>>

\* The await of one pass of the scene loop is over (version 1, lines 196,
\* 224): the next pass.
SceneLoopStep ==
    /\ gen.pc = "sceneloop"
    /\ gen' = SceneLoop([gen EXCEPT !.i = @ + 1])
    /\ UNCHANGED <<playerVars, fetch, proxy, client, app>>

\* The image of an element arrives or fails (version 1, lines 239-253).
ElementImageSettle ==
    /\ gen.pc = "elementimage"
    /\ gen' = [gen EXCEPT !.pc = "elementsleep"]
    /\ UNCHANGED <<playerVars, fetch, proxy, client, app>>

\* sleep(250) after a scene's elements is over (version 1, line 256).
ElementLoopStep ==
    /\ gen.pc = "elementsleep"
    /\ gen' = ElementLoop([gen EXCEPT !.i = @ + 1])
    /\ UNCHANGED <<playerVars, fetch, proxy, client, app>>

\* sleep(500) is over: the result is returned and enqueued (lines 382-391,
\* 424, 430; version 1, lines 260-269, 295-296).
Finalize ==
    /\ gen.pc = "finalizing"
    /\ gen' = GenerationReturned(gen)
    /\ UNCHANGED <<playerVars, fetch, proxy, client, app>>

GenInit ==
    /\ PlayerIdle
    /\ gen \in { HandlerRequest(version, method, body, duration, narration) :
                   version \in {1, 2},
                   method \in {"POST", "GET"},
                   body \in {"ok", "incomplete", "invalid"},
                   duration \in Durations,
                   narration \in BOOLEAN }
    /\ fetch = Idle
    /\ proxy = Idle
    /\ client = Idle
    /\ app = Idle

GenNext ==
    \/ Handle
    \/ \E n \in -1..MaxIdeas : IdeasSettle(n)
    \/ \E data \in SceneData \cup {"failed"} : SceneSettle(data)
    \/ NarrationSettle
    \/ \E k \in 1..MaxIdeas : ImageSettle(k)
    \/ \E storyboard \in ParsedStoryboards \cup {NoStoryboard} :
           StoryboardSettle(storyboard)
    \/ StoryboardNarrationSettle
    \/ SceneLoopStep
    \/ ElementImageSettle
    \/ ElementLoopStep
    \/ Finalize

\* Every call of the handler settles and every timer fires.
GenSpec == GenInit /\ [][GenNext]_vars /\ WF_vars(GenNext)

\* ------------------------------------------------------------------------
\* The storyboard proxy (api/proxy.ts)
\* ------------------------------------------------------------------------

\* The most calls of generateStoryboardViaProxy.
MaxRequests == 3

\* What generateId returns: Math.random gives no promise of distinct ids.
Ids == {"k3j9x", "q0zt7", "m5w1c"}

\* response.text of the answer to the k-th call.
ResponseText(k) ==
    <<"storyboard 1", "storyboard 2", "storyboard 3", "storyboard 4">>[k]

\* A message event at the window: its source and the fields of its data.
MessageEvent(source, id, payload, error) ==
    [source |-> source, id |-> id, payload |-> payload, error |-> error]

NoMessage == MessageEvent("none", "", Undefined, Undefined)

\* What the injected script posts for the request of the k-th call
\* (lines 122, 125).
IframeAnswers(k, id) ==
    { MessageEvent("iframe", id, S(ResponseText(k)), Undefined),
      MessageEvent("iframe", id, Undefined, S("Unknown error in API proxy")) }

\* Messages of other windows.
ForeignMessages ==
    { MessageEvent("other", id, S("spoofed"), Undefined) : id \in Ids }
    \cup { MessageEvent("other", "proxy-ready", Undefined, S("spoofed")) }

\* The promise of one call and what was done to it: resolve and reject
\* count in settles.
Request(id, state, value, settles) ==
    [id |-> id, state |-> state, value |-> value, settles |-> settles]

\* requestQueue.set(id, {resolve, reject}) (line 209): the entry holds the
\* functions of the promise of call k.
QueueSet(queue, id, k) == (id :> k) @@ queue

\* requestQueue.delete(id) (line 195)
QueueDelete(queue, id) == [x \in DOMAIN queue \ {id} |-> queue[x]]

\* As SettleRequest, keeping the entry in the queue.
SettleRequestKeep(p, k, event) ==
    [p EXCEPT !.requests[k] =
                  IF Truthy(event.error)
                  THEN Request(@.id, "rejected", event.error, @.settles + 1)
                  ELSE Request(@.id, "resolved", event.payload, @.settles + 1)]

\* request.reject(new Error(error)) or request.resolve(payload), then the
\* delete (lines 189-196).
SettleRequest(p, k, event) ==
    [p EXCEPT !.requests[k] =
                  IF Truthy(event.error)
                  THEN Request(@.id, "rejected", event.error, @.settles + 1)
                  ELSE Request(@.id, "resolved", event.payload, @.settles + 1),
              !.requestQueue = QueueDelete(@, event.id)]

\* The listener of setupResponseListener (lines 183-197).
ResponseListener(p, event) ==
    IF event.source # "iframe"
    THEN p
    ELSE IF event.id \in DOMAIN p.requestQueue
         THEN SettleRequest(p, p.requestQueue[event.id], event)
         ELSE p

\* The window delivers a message event to the listener.
Deliver(p, event) ==
    [ResponseListener(p, event) EXCEPT !.delivered = @ + 1, !.last = event]

\* initProxy when readyPromise is null (lines 137-177): without an API key
\* the promise is rejected, else the iframe loads.
InitProxy(p) ==
    IF p.pc # "unloaded"
    THEN p
    ELSE IF p.apiKey
         THEN [p EXCEPT !.pc = "loading"]
         ELSE [p EXCEPT !.pc = "failed"]

\* generateStoryboardViaProxy is called and awaits initProxy (line 201).
ProxyCall ==
    /\ Len(proxy.requests) < MaxRequests
    /\ proxy' = [InitProxy(proxy) EXCEPT
                    !.requests = Append(@, Request("", "waiting", Undefined, 0))]
    /\ UNCHANGED <<playerVars, fetch, gen, client, app>>

\* The iframe posts proxy-ready (lines 165-169).
ProxyReady ==
    /\ proxy.pc = "loading"
    /\ proxy' = [proxy EXCEPT !.pc = "ready"]
    /\ UNCHANGED <<playerVars, fetch, gen, client, app>>

\* The iframe posts proxy-init-error (lines 170-172).
ProxyInitError ==
    /\ proxy.pc = "loading"
    /\ proxy' = [proxy EXCEPT !.pc = "failed"]
    /\ UNCHANGED <<playerVars, fetch, gen, client, app>>

\* The k-th call goes on after initProxy (lines 201-214): it throws when
\* the proxy failed, else it draws an id, registers its promise and posts
\* its request to the iframe.
ProxyRegister(k, id) ==
    /\ k \in 1..Len(proxy.requests)
    /\ proxy.requests[k].state = "waiting"
    /\ proxy.pc \in {"ready", "failed"}
    /\ proxy' = IF proxy.pc = "failed"
                THEN [proxy EXCEPT !.requests[k].state = "threw"]
                ELSE [proxy EXCEPT
                         !.requests[k] = Request(id, "pending", Undefined, 0),
                         !.requestQueue = QueueSet(@, id, k),
                         !.inflight = @ \cup {k}]
    /\ UNCHANGED <<playerVars, fetch, gen, client, app>>

\* The iframe answers the request of the k-th call, in any order among the
\* requests it holds.
IframeResponse(k, event) ==
    /\ k \in proxy.inflight
    /\ event \in IframeAnswers(k, proxy.requests[k].id)
    /\ proxy' = Deliver([proxy EXCEPT !.inflight = @ \ {k}], event)
    /\ UNCHANGED <<playerVars, fetch, gen, client, app>>

\* Another window posts a message while the listener is installed (two
\* such messages at most in a run of the model).
ForeignMessage(event) ==
    /\ proxy.pc = "ready"
    /\ proxy.foreign < 2
    /\ proxy' = [Deliver(proxy, event) EXCEPT !.foreign = @ + 1]
    /\ UNCHANGED <<playerVars, fetch, gen, client, app>>

ProxyInit ==
    /\ PlayerIdle
    /\ proxy \in { [pc |-> "unloaded", apiKey |-> apiKey, requests |-> <<>>,
                    requestQueue |-> <<>>, inflight |-> {},
                    delivered |-> 0, foreign |-> 0, last |-> NoMessage] :
                   apiKey \in BOOLEAN }
    /\ fetch = Idle
    /\ gen = Idle
    /\ client = Idle
    /\ app = Idle

ProxyNext ==
    \/ ProxyCall
    \/ ProxyReady
    \/ ProxyInitError
    \/ \E k \in 1..Len(proxy.requests), id \in Ids : ProxyRegister(k, id)
    \/ \E k \in proxy.inflight :
           \E event \in IframeAnswers(k, proxy.requests[k].id) :
               IframeResponse(k, event)
    \/ \E event \in ForeignMessages : ForeignMessage(event)

ProxySpec == ProxyInit /\ [][ProxyNext]_vars

\* ------------------------------------------------------------------------
\* The streaming client (ai-motion-studio (3)/types.ts)
\* ------------------------------------------------------------------------

\* The most chunks one response stream delivers, and the most generations
\* one behaviour starts.
MaxReads == 3

MaxCalls == 2

\* The state values of the App that stand for null.
NoValue == "null"

\* The events the server writes, as the lines of the stream.
ProgressJson == "{\"type\":\"progress\",\"data\":\"step\"}"

ResultJson == "{\"type\":\"result\",\"data\":\"video\"}"

ErrorJson == "{\"type\":\"error\",\"data\":\"boom\"}"

BadRequestJson == "{\"error\":\"bad request\"}"

\* JSON.parse of the texts that occur: the events, the error body of the
\* handler and the literal null; any other text that occurs is not JSON.
Json(isNull, type, data, error) ==
    [ok |-> TRUE, isNull |-> isNull, type |-> type, data |-> data, error |-> error]

JsonParse(text) ==
    CASE text = ProgressJson -> Json(FALSE, "progress", "step", "")
      [] text = ResultJson -> Json(FALSE, "result", "video", "")
      [] text = ErrorJson -> Json(FALSE, "error", "boom", "")
      [] text = BadRequestJson -> Json(FALSE, "", "", "bad request")
      [] text = "null" -> Json(TRUE, "", "", "")
      [] OTHER -> Thrown

\* The chunks a read of the response stream may deliver: whole events, an
\* event cut in two, an event without its terminator, lines that are not
\* events, and two events in one chunk.
ChunkPool ==
    << "data: " \o ProgressJson \o "\n\n",
       "data: " \o ResultJson \o "\n\n",
       "data: " \o ErrorJson \o "\n\n",
       "data: {\"type\":\"result\",",
       "\"data\":\"video\"}\n\n",
       "data: {oops\n\n",
       "data: " \o ResultJson,
       ": ping\n\n",
       "data: " \o ResultJson \o "\n\ndata: " \o ProgressJson \o "\n\n",
       "data: null\n\n" >>

\* What reader.read() settles with.
ReadResults ==
    {[done |-> FALSE, rejected |-> FALSE, value |-> ChunkPool[n]] :
         n \in 1..Len(ChunkPool)}
    \cup {[done |-> TRUE, rejected |-> FALSE, value |-> ""],
          [done |-> FALSE, rejected |-> TRUE, value |-> ""]}

\* What fetch settles with: a rejection, or a response.
Response(rejected, body, ok, status, statusText) ==
    [rejected |-> rejected, body |-> body, ok |-> ok, status |-> status,
     statusText |-> statusText]

FetchResults ==
    { Response(TRUE, FALSE, FALSE, "", ""),
      Response(FALSE, FALSE, TRUE, "204", "No Content"),
      Response(FALSE, TRUE, TRUE, "200", "OK"),
      Response(FALSE, TRUE, FALSE, "400", "Bad Request"),
      Response(FALSE, TRUE, FALSE, "405", "Method Not Allowed") }

\* What response.text() settles with.
TextResults ==
    {[rejected |-> FALSE, text |-> t] :
         t \in {BadRequestJson, "Method Not Allowed", "null"}}
    \cup {[rejected |-> TRUE, text |-> ""]}

\* The prompts the form is submitted with.
Prompts == {"", "  ", "a cat"}

\* String.prototype.trim for prompts of letters and spaces.
RECURSIVE TrimStart(_)
TrimStart(s) ==
    IF s # "" /\ SubSeq(s, 1, 1) = " " THEN TrimStart(SubSeq(s, 2, Len(s))) ELSE s

RECURSIVE TrimEnd(_)
TrimEnd(s) ==
    IF s # "" /\ SubSeq(s, Len(s), Len(s)) = " "
    THEN TrimEnd(SubSeq(s, 1, Len(s) - 1)) ELSE s

Trim(s) == TrimEnd(TrimStart(s))

\* The least index from i on at which the separator occurs in s, or 0.
Matches(s, separator, i) ==
    {j \in i..(Len(s) - Len(separator) + 1) :
         SubSeq(s, j, j + Len(separator) - 1) = separator}

SeparatorIndex(s, separator, i) ==
    IF Matches(s, separator, i) = {} THEN 0
    ELSE CHOOSE j \in Matches(s, separator, i) :
             \A k \in Matches(s, separator, i) : j <= k

\* String.prototype.split with a non-empty separator, from index i on.
RECURSIVE Split(_, _, _)
SplitAt(s, separator, i, j) ==
    IF j = 0 THEN <<SubSeq(s, i, Len(s))>>
    ELSE <<SubSeq(s, i, j - 1)>> \o Split(s, separator, j + Len(separator))

Split(s, separator, i) ==
    SplitAt(s, separator, i, SeparatorIndex(s, separator, i))

StartsWith(s, prefix) ==
    Len(prefix) <= Len(s) /\ SubSeq(s, 1, Len(prefix)) = prefix

\* The App before the first submission (lines 128-132).
StreamingApp ==
    [pc |-> "ui", loading |-> FALSE, error |-> NoValue, videoResult |-> NoValue,
     loadingState |-> NoValue, promise |-> "none", calls |-> 0,
     callbacks |-> <<>>, buffer |-> "", reads |-> 0, response |-> NoValue]

\* showForm (line 187).
showForm(c) == ~c.loading /\ c.error = NoValue /\ c.videoResult = NoValue

\* The three callbacks handleGenerate passes (lines 168-178).
streamOnProgress(c, state) ==
    [c EXCEPT !.loadingState = state, !.callbacks = Append(@, "onProgress")]

onResult(c, result) ==
    [c EXCEPT !.videoResult = result, !.loading = FALSE, !.loadingState = NoValue,
              !.callbacks = Append(@, "onResult")]

onError(c, err) ==
    [c EXCEPT !.error = err, !.loading = FALSE, !.loadingState = NoValue,
              !.callbacks = Append(@, "onError")]

\* streamVideoGeneration returns or throws, and with it handleGenerate,
\* which awaits it without a try (line 165).
StreamReturned(c) == [c EXCEPT !.pc = "ui", !.promise = "fulfilled"]

StreamRejected(c) == [c EXCEPT !.pc = "ui", !.promise = "rejected"]

\* handleGenerate up to its await (lines 146-165).
handleGenerate(c, prompt) ==
    IF Trim(prompt) = "" \/ c.loading THEN c
    ELSE [c EXCEPT !.loading = TRUE, !.error = NoValue, !.videoResult = NoValue,
                   !.loadingState = "initial", !.pc = "fetch",
                   !.promise = "pending", !.calls = @ + 1, !.callbacks = <<>>,
                   !.buffer = "", !.reads = 0, !.response = NoValue]

\* handleTryAgain (lines 182-185).
handleTryAgain(c) == [c EXCEPT !.error = NoValue, !.videoResult = NoValue]

\* streamVideoGeneration after the fetch (lines 68-92).
AfterFetch(c, response) ==
    IF response.rejected THEN StreamRejected(c)
    ELSE IF ~response.body
         THEN StreamReturned(onError(c, "Failed to get response stream."))
    ELSE IF ~response.ok THEN [c EXCEPT !.pc = "text", !.response = response]
    ELSE [c EXCEPT !.pc = "read", !.response = response]

\* The message of a response that is not ok (lines 81-86): errorJson.error
\* throws on null, and an empty errorJson.error gives way to the text.
ServerError(response, errorText, errorJson) ==
    IF ~errorJson.ok \/ errorJson.isNull
    THEN "Server error: " \o response.status \o " " \o response.statusText
             \o ". " \o errorText
    ELSE "Server error: " \o (IF errorJson.error # "" THEN errorJson.error
                                ELSE errorText)

AfterText(c, result) ==
    IF result.rejected THEN StreamRejected(c)
    ELSE StreamReturned(onError(c,
             ServerError(c.response, result.text, JsonParse(result.text))))

\* The for loop of processStream (lines 103-120): c with the callbacks of
\* the lines applied, returned from at the first result or error event.
RECURSIVE ProcessLines(_, _)
ProcessJson(c, lines, json) ==
    IF ~json.ok \/ json.isNull THEN ProcessLines(c, Tail(lines))
    ELSE IF json.type = "progress"
         THEN ProcessLines(streamOnProgress(c, json.data), Tail(lines))
    ELSE IF json.type = "result" THEN StreamReturned(onResult(c, json.data))
    ELSE IF json.type = "error" THEN StreamReturned(onError(c, json.data))
    ELSE ProcessLines(c, Tail(lines))

ProcessLines(c, lines) ==
    IF lines = <<>> THEN c
    ELSE IF StartsWith(Head(lines), "data: ")
         THEN ProcessJson(c, lines,
                  JsonParse(SubSeq(Head(lines), 7, Len(Head(lines)))))
    ELSE ProcessLines(c, Tail(lines))

\* One turn of the while loop of processStream (lines 96-101): the last
\* piece of the split stays in the buffer.
ProcessChunk(c, lines) ==
    ProcessLines([c EXCEPT !.buffer = lines[Len(lines)], !.reads = @ + 1],
                 SubSeq(lines, 1, Len(lines) - 1))

processStream(c, read) ==
    IF read.rejected THEN StreamRejected(c)
    ELSE IF read.done THEN StreamReturned(c)
    ELSE ProcessChunk(c, Split(c.buffer \o read.value, "\n\n", 1))

\* The form is submitted (lines 328, 343); it is shown while showForm.
Submit(prompt) ==
    /\ client.pc = "ui"
    /\ showForm(client)
    /\ client.calls < MaxCalls
    /\ client' = handleGenerate(client, prompt)
    /\ UNCHANGED <<playerVars, fetch, gen, proxy, app>>

\* The Try Again or Create Another button (lines 216, 232).
TryAgain ==
    /\ client.pc = "ui"
    /\ ~(client.loading /\ client.loadingState # NoValue)
    /\ client.error # NoValue \/ client.videoResult # NoValue
    /\ client' = handleTryAgain(client)
    /\ UNCHANGED <<playerVars, fetch, gen, proxy, app>>

\* The fetch settles (line 68).
ClientFetchSettle(response) ==
    /\ client.pc = "fetch"
    /\ client' = AfterFetch(client, response)
    /\ UNCHANGED <<playerVars, fetch, gen, proxy, app>>

\* response.text() settles (line 80).
ClientTextSettle(result) ==
    /\ client.pc = "text"
    /\ client' = AfterText(client, result)
    /\ UNCHANGED <<playerVars, fetch, gen, proxy, app>>

\* reader.read() settles (line 96); the stream ends within MaxReads chunks.
ClientReadSettle(read) ==
    /\ client.pc = "read"
    /\ read.done \/ read.rejected \/ client.reads < MaxReads
    /\ client' = processStream(client, read)
    /\ UNCHANGED <<playerVars, fetch, gen, proxy, app>>

ClientInit ==
    /\ PlayerIdle
    /\ client = StreamingApp
    /\ fetch = Idle
    /\ gen = Idle
    /\ proxy = Idle
    /\ app = Idle

ClientNext ==
    \/ \E prompt \in Prompts : Submit(prompt)
    \/ TryAgain
    \/ \E response \in FetchResults : ClientFetchSettle(response)
    \/ \E result \in TextResults : ClientTextSettle(result)
    \/ \E read \in ReadResults : ClientReadSettle(read)

\* Every await of a generation settles.
ClientSpec == ClientInit /\ [][ClientNext]_vars /\ WF_vars(ClientNext)

\* ------------------------------------------------------------------------
\* The studio App (ai-motion-studio/App.tsx) and its client generateVideo
\* (unnamed/part_001, lines 338-394)
\* ------------------------------------------------------------------------

\* The most form submissions of one behaviour, and the most chunks one
\* response stream delivers.
MaxSubmissions == 3

MaxEvents == 2

\* The App before the first submission (App.tsx lines 28-30).  A result or
\* an error is named by the number of the submission it belongs to; 0 is
\* null.
StudioApp ==
    [pc |-> "ui", videoResult |-> 0, error |-> 0, loadingState |-> NoValue,
     submitted |-> 0, generations |-> <<>>]

\* A call of generateVideo waiting for its fetch.
Generation == [pc |-> "fetch", result |-> FALSE, reads |-> 0]

\* The calls of generateVideo that have not settled.
InFlight(a) == {n \in 1..Len(a.generations) : a.generations[n].pc # "settled"}

\* The events of one chunk of the stream: a progress, result or error event,
\* or a line that is not JSON.
StreamEvents == {"progress", "result", "error", "malformed"}

\* handleGenerateVideo up to its await (App.tsx lines 33-38).
handleGenerateVideo(a) ==
    [a EXCEPT !.videoResult = 0, !.error = 0, !.loadingState = "starting",
              !.submitted = @ + 1, !.generations = Append(@, Generation)]

\* generateVideo returns: the try ends and the finally runs (App.tsx lines
\* 41, 46).
GenerationResolved(a, n) ==
    [a EXCEPT !.videoResult = n, !.loadingState = NoValue,
              !.generations[n].pc = "settled"]

\* generateVideo throws: the catch and the finally run (App.tsx lines 42-46).
GenerationRejected(a, n) ==
    [a EXCEPT !.error = n, !.loadingState = NoValue,
              !.generations[n].pc = "settled"]

\* generateVideo after the fetch (part_001 lines 350-364).
AfterStudioFetch(a, n, response) ==
    IF response.rejected \/ ~response.body THEN GenerationRejected(a, n)
    ELSE [a EXCEPT !.generations[n].pc = "read"]

\* The end of the stream (part_001 lines 368-393).
StreamEnded(a, n) ==
    IF a.generations[n].result THEN GenerationResolved(a, n)
    ELSE GenerationRejected(a, n)

\* One event of a chunk (part_001 lines 375-387); the progress callback of
\* App.tsx line 39.
StreamEvent(a, n, event) ==
    CASE event = "progress" ->
             [a EXCEPT !.loadingState = "progress", !.generations[n].reads = @ + 1]
      [] event = "result" ->
             [a EXCEPT !.generations[n].result = TRUE, !.generations[n].reads = @ + 1]
      [] OTHER -> GenerationRejected(a, n)

\* The form is submitted (App.tsx line 53); it is always shown.
StudioSubmit ==
    /\ app.pc = "ui"
    /\ app.submitted < MaxSubmissions
    /\ app' = handleGenerateVideo(app)
    /\ UNCHANGED <<playerVars, fetch, gen, proxy, client>>

\* The fetch of generation n settles (part_001 line 350).
StudioFetchSettle(n, response) ==
    /\ app.pc = "ui"
    /\ n \in InFlight(app)
    /\ app.generations[n].pc = "fetch"
    /\ app' = AfterStudioFetch(app, n, response)
    /\ UNCHANGED <<playerVars, fetch, gen, proxy, client>>

\* A read of generation n delivers a chunk (part_001 line 367).
StudioRead(n, event) ==
    /\ app.pc = "ui"
    /\ n \in InFlight(app)
    /\ app.generations[n].pc = "read"
    /\ app.generations[n].reads < MaxEvents
    /\ app' = StreamEvent(app, n, event)
    /\ UNCHANGED <<playerVars, fetch, gen, proxy, client>>

\* A read of generation n reports the end of the stream, or rejects.
StudioReadEnd(n, rejected) ==
    /\ app.pc = "ui"
    /\ n \in InFlight(app)
    /\ app.generations[n].pc = "read"
    /\ app' = IF rejected THEN GenerationRejected(app, n) ELSE StreamEnded(app, n)
    /\ UNCHANGED <<playerVars, fetch, gen, proxy, client>>

StudioInit ==
    /\ PlayerIdle
    /\ app = StudioApp
    /\ fetch = Idle
    /\ gen = Idle
    /\ proxy = Idle
    /\ client = Idle

StudioNext ==
    \/ StudioSubmit
    \/ \E n \in 1..MaxSubmissions, response \in FetchResults :
           StudioFetchSettle(n, response)
    \/ \E n \in 1..MaxSubmissions, event \in StreamEvents : StudioRead(n, event)
    \/ \E n \in 1..MaxSubmissions, rejected \in BOOLEAN : StudioReadEnd(n, rejected)

StudioSpec == StudioInit /\ [][StudioNext]_vars

\* ------------------------------------------------------------------------
\* Properties
\* ------------------------------------------------------------------------

\* The element of scene i has a resolved style: its component is mounted and
\* the resolution returned.  A resolution that throws (keyframes that share
\* a position make interpolate throw) yields no style to speak of.
Resolved(i) == memo[i] # NoMemo /\ ~memo[i].value.threw

ElementStyle(i) == memo[i].value.style

LocalFrame(i) == rendered.scenes[i].frame

\* The frame position at * sceneDuration of a keyframe.
Position(kf) == Mul(kf.at, OfInt(DURATION_PER_SCENE))

\* The stored keyframes (their indices) that define a property.
Defining(kfs, prop) == {k \in 1..Len(kfs) : kfs[k].style[prop] # Undefined}

Earliest(kfs, I) == CHOOSE k \in I : \A j \in I : Le(kfs[k].at, kfs[j].at)

Latest(kfs, I) == CHOOSE k \in I : \A j \in I : Le(kfs[j].at, kfs[k].at)

\* The number an opacity value stands for.
OpacityNumber(v) ==
    CASE v.t = "number" -> v.v
      [] v.t = "string" -> parseFloat(v.s)
      [] v.t = "null" -> OfInt(1)

OpacityAt(kfs, k) == OpacityNumber(kfs[k].style.opacity)

\* C1 (opacity clamping): whenever an element with two or more opacity
\* keyframes has a resolved style, its opacity at a frame at or before the
\* first opacity keyframe's position is that keyframe's opacity, and at a
\* frame at or after the last one's position is the last one's opacity.
C1_OpacityClamped ==
    \A i \in 1..Len(scenes) :
        Resolved(i) /\ Cardinality(Defining(scenes[i].keyframes, "opacity")) >= 2 =>
            LET kfs == scenes[i].keyframes
                first == Earliest(kfs, Defining(kfs, "opacity"))
                last == Latest(kfs, Defining(kfs, "opacity"))
            IN  /\ Le(OfInt(LocalFrame(i)), Position(kfs[first])) =>
                       ElementStyle(i).opacity = N(OpacityAt(kfs, first))
                /\ Le(Position(kfs[last]), OfInt(LocalFrame(i))) =>
                       ElementStyle(i).opacity = N(OpacityAt(kfs, last))

\* Keyframes 0.2 -> 0 and 0.8 -> 1 resolved at frame 90, past the last
\* position 72: the opacity is 1.
C1_ClampedPastLast ==
    \E i \in 1..Len(scenes) :
        /\ Resolved(i)
        /\ scenes[i].keyframes = <<NumericPool[1], NumericPool[2]>>
        /\ LocalFrame(i) = 90
        /\ ElementStyle(i).opacity = N(OfInt(1))

\* va + (f - a) / (b - a) * (vb - va)
Lerp(f, a, b, va, vb) ==
    Add(va, Mul(Div(Sub(f, a), Sub(b, a)), Sub(vb, va)))

\* C2 (piecewise-linear opacity): whenever an element has a resolved style
\* and the frame f lies between two consecutive opacity keyframes at
\* positions a < b with values va and vb, the opacity is
\* va + (f - a) / (b - a) * (vb - va).
C2_OpacityPiecewiseLinear ==
    \A i \in 1..Len(scenes) :
        Resolved(i) =>
            LET kfs == scenes[i].keyframes
                I == Defining(kfs, "opacity")
                f == OfInt(LocalFrame(i))
            IN  \A a \in I, b \in I :
                    ( /\ Lt(kfs[a].at, kfs[b].at)
                      /\ ~ \E c \in I : Lt(kfs[a].at, kfs[c].at) /\ Lt(kfs[c].at, kfs[b].at)
                      /\ Le(Position(kfs[a]), f)
                      /\ Le(f, Position(kfs[b])) )
                    => ElementStyle(i).opacity =
                           N(Lerp(f, Position(kfs[a]), Position(kfs[b]),
                                  OpacityAt(kfs, a), OpacityAt(kfs, b)))

\* Keyframes 0.2 -> 0 and 0.8 -> 1 resolved at frame 45, the middle of
\* [18, 72]: the opacity is exactly 1/2.
C2_MidpointIsHalf ==
    \E i \in 1..Len(scenes) :
        /\ Resolved(i)
        /\ scenes[i].keyframes = <<NumericPool[1], NumericPool[2]>>
        /\ LocalFrame(i) = 45
        /\ ElementStyle(i).opacity = N(Num(1, 2))

\* C3 (single-keyframe constancy): whenever an element has a resolved style,
\* every property that exactly one of its keyframes defines has exactly
\* that keyframe's value, at every frame.
C3_SingleKeyframeConstant ==
    \A i \in 1..Len(scenes) :
        Resolved(i) =>
            \A prop \in Props :
                LET kfs == scenes[i].keyframes
                    I == Defining(kfs, prop)
                IN  Cardinality(I) = 1 =>
                        \A k \in I : ElementStyle(i)[prop] = kfs[k].style[prop]

\* An element of three keyframes, only the middle one (at 0.5) defining
\* opacity, resolved at the last frame of its window: the opacity is that
\* keyframe's 1/2.
C3_SingleAmongOthers ==
    \E i \in 1..Len(scenes) :
        /\ Resolved(i)
        /\ scenes[i].keyframes = <<TransformPool[1], TransformPool[2], TransformPool[3]>>
        /\ LocalFrame(i) = DURATION_PER_SCENE + TRANSITION_DURATION - 1
        /\ ElementStyle(i).opacity = N(Num(1, 2))

\* The properties that are neither opacity, a colour nor transform.
StepProps == Props \ {"opacity", "color", "backgroundColor", "transform"}

\* The value step interpolation selects among the sorted keyframes K of a
\* property at frame f.
Selected(K, prop, f) ==
    LET before == {k \in 1..Len(K) : Le(Position(K[k]), f)}
    IN  IF before = {} THEN K[1].style[prop]
        ELSE K[CHOOSE k \in before : \A j \in before : j <= k].style[prop]

\* C4 (step interpolation): whenever an element has a resolved style, every
\* property other than opacity, color, backgroundColor and transform that
\* two or more keyframes define has the value of the latest keyframe, in
\* sorted order, whose position is at or before the frame, and the first
\* keyframe's value when the frame is before every keyframe.
C4_StepInterpolation ==
    \A i \in 1..Len(scenes) :
        Resolved(i) =>
            \A prop \in StepProps :
                LET K == KeyframesForProp(SortKeyframes(scenes[i].keyframes), prop)
                IN  Len(K) >= 2 =>
                        ElementStyle(i)[prop] = Selected(K, prop, OfInt(LocalFrame(i)))

\* filter "blur(10px)" at 0.5 and "blur(0px)" at 0, resolved at frame 45,
\* the position of the second: the filter is "blur(10px)".
C4_StepAtPosition ==
    \E i \in 1..Len(scenes) :
        /\ Resolved(i)
        /\ scenes[i].keyframes = <<NumericPool[3], NumericPool[4]>>
        /\ LocalFrame(i) = 45
        /\ ElementStyle(i).filter = S("blur(10px)")

\* The value of a channel carried forward to the k-th sorted keyframe: that
\* of the latest keyframe up to it that defines the channel, the identity
\* default when there is none.
RECURSIVE Carried(_, _, _)
Carried(sorted, k, func) ==
    IF k = 0 THEN defaultValue(func)
    ELSE IF Lookup(ParsedTransform(sorted[k]), func).found
         THEN Lookup(ParsedTransform(sorted[k]), func).value
    ELSE Carried(sorted, k - 1, func)

\* C5 (transform channel independence): whenever an element with two or
\* more transform keyframes has a resolved style, then at the position of
\* each of its keyframes every channel of the resolved transform has the
\* value the latest keyframe up to that one defines for it, a channel the
\* keyframe omits keeping the earlier value; and for translateX(0px)
\* scale(1) at 0 and translateX(100px) at 1 the transform at a frame f of
\* [0, 90] is translateX of 100 f / 90 px followed by scale(1), which is
\* translateX(50px) scale(1) halfway.
C5_TransformChannels ==
    \A i \in 1..Len(scenes) :
        Resolved(i) /\ Cardinality(Defining(scenes[i].keyframes, "transform")) >= 2 =>
            LET sorted == SortKeyframes(scenes[i].keyframes)
                funcs == AllFuncs(KeyframesForProp(sorted, "transform"), <<>>)
                f == LocalFrame(i)
            IN  /\ \A k \in 1..Len(sorted) :
                       Position(sorted[k]) = OfInt(f) =>
                           \A n \in 1..Len(funcs) :
                               /\ Lookup(parseTransform(ElementStyle(i).transform.s),
                                         funcs[n]).found
                               /\ Lookup(parseTransform(ElementStyle(i).transform.s),
                                         funcs[n]).value = Carried(sorted, k, funcs[n])
                /\ scenes[i].keyframes = <<TransformPool[1], TransformPool[2]>> /\ f <= 90 =>
                       ElementStyle(i).transform =
                           S("translateX(" \o NumToString(Num(100 * f, 90))
                                \o "px) scale(1)")

\* translateX(0px) scale(1) at 0 and translateX(100px) at 1, resolved at
\* frame 45: the transform is translateX(50px) scale(1).
C5_HalfwayTransform ==
    \E i \in 1..Len(scenes) :
        /\ Resolved(i)
        /\ scenes[i].keyframes = <<TransformPool[1], TransformPool[2]>>
        /\ LocalFrame(i) = 45
        /\ ElementStyle(i).transform = S("translateX(50px) scale(1)")

\* C6 (purity): after any sequence of renders (frame by frame, looping,
\* scrubbing, repeated), the style the hook holds for every mounted element
\* is the one a fresh computation gives for its keyframes, its local frame
\* and the scene duration, and an element outside its window holds none.
C6_MemoIsFresh ==
    \A i \in 1..Len(scenes) :
        IF rendered.scenes[i].mounted
        THEN /\ memo[i] # NoMemo
             /\ memo[i].value = AnimatedStyle(scenes[i].keyframes, LocalFrame(i),
                                              DURATION_PER_SCENE)
        ELSE memo[i] = NoMemo

\* Master frame 105 of a three-scene storyboard: the first two elements are
\* mounted with the same keyframes at local frames 105 and 15, and their
\* cells hold different styles (opacity 1 and 0).
C6_TwoCellsApart ==
    /\ Len(scenes) = 3
    /\ frame = 105
    /\ scenes[1].keyframes = <<NumericPool[1], NumericPool[2]>>
    /\ memo[1] # NoMemo /\ memo[2] # NoMemo
    /\ memo[1].deps[1] = 105 /\ memo[2].deps[1] = 15
    /\ memo[1].value.style.opacity = N(OfInt(1))
    /\ memo[2].value.style.opacity = N(OfInt(0))

\* C7 as stated (transition opacity law): in a three-scene composition, at
\* master frame 90, where the duration of scene 0 ends and the window of
\* scene 1 begins, the opacities of scene 0 and scene 1 are equal.
C7_EqualAtBoundary ==
    Len(scenes) = 3 /\ frame = DURATION_PER_SCENE =>
        rendered.scenes[1].opacity = rendered.scenes[2].opacity

\* C7 (transition opacity law): in a three-scene composition, at master
\* frame 90, where the window of scene 1 begins, scene 0 has opacity 1 and
\* scene 1 has opacity 0; over the overlap [90, 120) of the two windows the
\* two opacities add up to 1, and they are equal (both 1/2) at frame 105,
\* the middle of the crossfade, and at no other frame.
C7_CrossfadeSymmetric ==
    Len(scenes) = 3 /\ frame \in 90..119 =>
        /\ rendered.scenes[1].mounted /\ rendered.scenes[2].mounted
        /\ Add(rendered.scenes[1].opacity, rendered.scenes[2].opacity) = OfInt(1)
        /\ frame = 90 =>
               rendered.scenes[1].opacity = OfInt(1) /\ rendered.scenes[2].opacity = OfInt(0)
        /\ frame = 105 =>
               rendered.scenes[1].opacity = Num(1, 2) /\ rendered.scenes[2].opacity = Num(1, 2)
        /\ rendered.scenes[1].opacity = rendered.scenes[2].opacity => frame = 105

\* Master frame 105 of a three-scene composition: scenes 0 and 1 both have
\* opacity 1/2.
C7_EqualAtMidpoint ==
    /\ Len(scenes) = 3
    /\ frame = 105
    /\ rendered.scenes[1].opacity = Num(1, 2)
    /\ rendered.scenes[2].opacity = Num(1, 2)

\* The two ramps of the schedule at a local frame f.
FadeOutRamp(f) == IF f <= 90 THEN OfInt(1) ELSE Num(120 - f, 30)

FadeInRamp(f) == IF f >= 30 THEN OfInt(1) ELSE Num(f, 30)

\* C8 (scene opacity schedule): at its local frame f the first scene has
\* opacity 1 up to 90 and then falls linearly to 0 at 120, the last scene
\* rises linearly from 0 at 0 to 1 at 30 and then stays 1, an interior
\* scene has the smaller of the two ramps, and a scene that is both first
\* and last has opacity 1.
C8_OpacitySchedule ==
    \A i \in 1..Len(scenes) :
        rendered.scenes[i].mounted =>
            rendered.scenes[i].opacity =
                IF Len(scenes) = 1 THEN OfInt(1)
                ELSE IF i = 1 THEN FadeOutRamp(LocalFrame(i))
                ELSE IF i = Len(scenes) THEN FadeInRamp(LocalFrame(i))
                ELSE Min(FadeInRamp(LocalFrame(i)), FadeOutRamp(LocalFrame(i)))

\* The interior scene of a three-scene composition at its local frame 100,
\* a third of the way into its fade-out: its opacity is 2/3.
C8_InteriorFadingOut ==
    /\ Len(scenes) = 3
    /\ rendered.scenes[2].mounted
    /\ rendered.scenes[2].frame = 100
    /\ rendered.scenes[2].opacity = Num(2, 3)

\* C9 (scene opacity in range): the opacity of every mounted scene, at
\* every local frame of its window, is between 0 and 1 inclusive.
C9_OpacityInRange ==
    \A i \in 1..Len(scenes) :
        rendered.scenes[i].mounted =>
            /\ Le(OfInt(0), rendered.scenes[i].opacity)
            /\ Le(rendered.scenes[i].opacity, OfInt(1))

\* The interior scene of a three-scene composition at the last frame of its
\* window, where its fade-out, unclamped on the right, is 1/30.
C9_InteriorLastFrame ==
    /\ Len(scenes) = 3
    /\ rendered.scenes[2].mounted
    /\ rendered.scenes[2].frame = 119
    /\ rendered.scenes[2].opacity = Num(1, 30)

\* C10 (scene windows): scene i, counted from 0 in storyboard order, is
\* mounted exactly at the master frames of [90 i, 90 i + 120), and its
\* local frame is the master frame minus 90 i.
C10_SceneWindows ==
    \A i \in 1..Len(scenes) :
        /\ rendered.scenes[i].mounted <=>
               (90 * (i - 1) <= frame /\ frame < 90 * (i - 1) + 120)
        /\ rendered.scenes[i].mounted =>
               rendered.scenes[i].frame = frame - 90 * (i - 1)

\* Master frame 195 of a three-scene composition: scene 0 is no longer
\* mounted, scenes 1 and 2 are, at local frames 105 and 15.
C10_SecondOverlap ==
    /\ Len(scenes) = 3
    /\ frame = 195
    /\ ~rendered.scenes[1].mounted
    /\ rendered.scenes[2].mounted /\ rendered.scenes[2].frame = 105
    /\ rendered.scenes[3].mounted /\ rendered.scenes[3].frame = 15

\* n * 90 + 30 frames for n >= 1 scenes, 90 for none.
CompositionLength == IF Len(scenes) >= 1 THEN Len(scenes) * 90 + 30 ELSE 90

\* C11 (composition length): the Player's frame stays below n * 90 + 30 for
\* n >= 1 scenes and below 90 for no scenes, and every advance of the
\* Player goes to the next frame modulo that length, so the loop restarts
\* exactly after frame n * 90 + 29 (after frame 89 for no scenes).
C11_CompositionLength ==
    /\ [](frame < CompositionLength)
    /\ [][Tick => frame' = (frame + 1) % CompositionLength]_vars

\* The last frame, 299, of a three-scene composition.
C11_LastFrameOfThree ==
    /\ Len(scenes) = 3
    /\ frame = 299
    /\ rendered.scenes[3].mounted

\* C12 (empty input): with no scenes the placeholder is what is rendered,
\* at every frame; no scene is mounted, no element is drawn, no keyframe is
\* resolved, and no render throws.
C12_EmptyInput ==
    Len(scenes) = 0 =>
        /\ rendered.placeholder
        /\ rendered.scenes = <<>>
        /\ elements = <<>>
        /\ memo = <<>>
        /\ ~crashed

\* The placeholder in the middle of the 90 frames of an empty composition.
C12_PlaceholderMidway ==
    /\ Len(scenes) = 0
    /\ frame = 45
    /\ rendered.placeholder

\* C13 as stated (centering is preserved): whenever an element is drawn
\* and its resolved style has a transform entry, the transform it is drawn
\* with is the base transform translate(-50%, -50%), a space, and the
\* resolved transform.
C13_CenteringPreserved ==
    \A i \in 1..Len(scenes) :
        ( /\ elements[i].mounted
          /\ ~elements[i].threw
          /\ ElementStyle(i).transform # Undefined )
        => elements[i].transform =
               S("translate(-50%, -50%) " \o String(ElementStyle(i).transform))

\* The pairs a < b of stored keyframes of an element with the same at.
Ties(kfs) ==
    {p \in (1..Len(kfs)) \X (1..Len(kfs)) : p[1] < p[2] /\ kfs[p[1]].at = kfs[p[2]].at}

\* C14 as stated (keyframe ties): whenever a mounted element has two
\* keyframes with the same at, its style resolution returns, and at the
\* frame of that position every property both keyframes define has the
\* value of the one that is later in array order (for opacity, the number
\* it stands for).
C14_KeyframeTies ==
    \A i \in 1..Len(scenes) :
        memo[i] # NoMemo /\ Ties(scenes[i].keyframes) # {} =>
            /\ Resolved(i)
            /\ \A p \in Ties(scenes[i].keyframes), prop \in StepProps \cup {"opacity"} :
                   LET a == scenes[i].keyframes[p[1]]
                       b == scenes[i].keyframes[p[2]]
                   IN  ( /\ a.style[prop] # Undefined
                         /\ b.style[prop] # Undefined
                         /\ Position(b) = OfInt(LocalFrame(i)) )
                       => ElementStyle(i)[prop] =
                              IF prop = "opacity" THEN N(OpacityNumber(b.style.opacity))
                              ELSE b.style[prop]

\* An opacity value that is not a valid number: null, or a string that
\* parseFloat reads as NaN.
InvalidOpacity(v) == v = Null \/ (v.t = "string" /\ IsNaN(parseFloat(v.s)))

\* C15 as stated (defensive opacity coercion): whenever a mounted element
\* has an opacity keyframe whose value is not a valid number, its style
\* resolution returns and the resolved opacity is a finite number.
C15_OpacityCoerced ==
    \A i \in 1..Len(scenes) :
        ( /\ memo[i] # NoMemo
          /\ \E k \in Defining(scenes[i].keyframes, "opacity") :
                 InvalidOpacity(scenes[i].keyframes[k].style.opacity) )
        => /\ Resolved(i)
           /\ ElementStyle(i).opacity.t = "number"
           /\ ~IsNaN(ElementStyle(i).opacity.v)

\* The name(args) terms of a transform string, as the matches of the
\* parser's first regular expression from index i on.
RECURSIVE Terms(_, _)
Terms(s, i) ==
    IF ~RegexExec(s, i).found THEN {}
    ELSE {RegexExec(s, i)} \cup Terms(s, RegexExec(s, i).lastIndex)

\* A term is well formed when its args are a number followed by a unit:
\* the number stands at the start of the args.
WellFormed(term) ==
    /\ ValMatch(term.valStr, 1).found
    /\ Len(ValMatch(term.valStr, 1).number) + Len(ValMatch(term.valStr, 1).rest)
           = Len(term.valStr)

\* C16 as stated (malformed transforms are tolerated): for every transform
\* string of a keyframe of a mounted element, the keys of the parsed
\* mapping are exactly the names of the well-formed name(number unit)
\* terms of the string.
C16_OnlyWellFormedTerms ==
    \A i \in 1..Len(scenes) :
        memo[i] # NoMemo =>
            \A k \in Defining(scenes[i].keyframes, "transform") :
                LET transform == scenes[i].keyframes[k].style.transform.s
                    parsed == parseTransform(transform)
                IN  {parsed[n].func : n \in 1..Len(parsed)} =
                        {term.func : term \in {t \in Terms(transform, 1) : WellFormed(t)}}

\* The property names of a style: those with a defined value.
KeySet(style) == {prop \in Props : style[prop] # Undefined}

\* C17 (resolved key set): whenever an element has a resolved style, its
\* property names are exactly those that at least one keyframe gives a
\* defined value, and an element without keyframes has the empty style.
C17_ResolvedKeySet ==
    \A i \in 1..Len(scenes) :
        /\ Resolved(i) =>
               KeySet(ElementStyle(i)) =
                   {prop \in Props : Defining(scenes[i].keyframes, prop) # {}}
        /\ memo[i] # NoMemo /\ scenes[i].keyframes = <<>> =>
               Resolved(i) /\ ElementStyle(i) = EmptyStyle

\* Keyframes defining color, filter, opacity and width, but neither
\* transform nor backgroundColor, resolved at frame 45: the style has
\* exactly those four names.
C17_FourNames ==
    \E i \in 1..Len(scenes) :
        /\ Resolved(i)
        /\ scenes[i].keyframes = <<NumericPool[4], NumericPool[5]>>
        /\ LocalFrame(i) = 45
        /\ KeySet(ElementStyle(i)) = {"color", "filter", "opacity", "width"}

\* The transform keyframes of the sorted list up to the k-th, and all of
\* them, that define a channel.
DefinedUpTo(sorted, k, func) ==
    {j \in 1..k : Lookup(ParsedTransform(sorted[j]), func).found}

\* deg for rotate*, px for translate*, no unit otherwise.
ExpectedUnit(func) ==
    IF Includes(func, "rotate") THEN "deg"
    ELSE IF Includes(func, "translate") THEN "px"
    ELSE ""

\* C18 as stated (transform identity defaults): whenever an element with
\* two or more transform keyframes has a resolved style and the frame is
\* the position of one of its keyframes, then for every channel (a) when no
\* keyframe up to that one defines the channel, its rendered value is 1 for
\* a name containing scale and 0 otherwise, and (b) when every keyframe
\* that defines the channel gives no unit, it is rendered with deg for
\* rotate*, px for translate* and no unit otherwise.
C18_IdentityDefaults ==
    \A i \in 1..Len(scenes) :
        Resolved(i) /\ Cardinality(Defining(scenes[i].keyframes, "transform")) >= 2 =>
            LET sorted == SortKeyframes(scenes[i].keyframes)
                funcs == AllFuncs(KeyframesForProp(sorted, "transform"), <<>>)
                out == parseTransform(ElementStyle(i).transform.s)
            IN  \A k \in 1..Len(sorted), n \in 1..Len(funcs) :
                    Position(sorted[k]) = OfInt(LocalFrame(i)) =>
                        /\ DefinedUpTo(sorted, k, funcs[n]) = {} =>
                               Lookup(out, funcs[n]).value =
                                   IF Includes(funcs[n], "scale") THEN OfInt(1) ELSE OfInt(0)
                        /\ (\A j \in DefinedUpTo(sorted, Len(sorted), funcs[n]) :
                                Lookup(ParsedTransform(sorted[j]), funcs[n]).unit = "") =>
                               Lookup(out, funcs[n]).unit = ExpectedUnit(funcs[n])

\* C19 (transform breakpoints span all keyframes): whenever an element
\* with two or more transform keyframes has a resolved style and the frame
\* is the position of a keyframe that defines no transform, every channel
\* has there the value carried forward from the latest earlier keyframe
\* that defines it, the identity default when there is none; and with
\* translateX(0px) scale(1) at 0, a keyframe without transform at 0.5 and
\* translateX(100px) at 1, translateX is 0 up to frame 45 and only then
\* moves to 100 at frame 90, as 100 (f - 45) / 45.
C19_BreakpointsSpanAllKeyframes ==
    \A i \in 1..Len(scenes) :
        Resolved(i) /\ Cardinality(Defining(scenes[i].keyframes, "transform")) >= 2 =>
            LET sorted == SortKeyframes(scenes[i].keyframes)
                funcs == AllFuncs(KeyframesForProp(sorted, "transform"), <<>>)
                f == LocalFrame(i)
            IN  /\ \A k \in 1..Len(sorted) :
                       ( /\ sorted[k].style.transform = Undefined
                         /\ Position(sorted[k]) = OfInt(f) )
                       => \A n \in 1..Len(funcs) :
                              Lookup(parseTransform(ElementStyle(i).transform.s),
                                     funcs[n])
                                  = [found |-> TRUE,
                                     value |-> Carried(sorted, k - 1, funcs[n]),
                                     unit |-> Lookup(parseTransform(
                                                  ElementStyle(i).transform.s),
                                                  funcs[n]).unit]
                /\ scenes[i].keyframes =
                       <<TransformPool[1], TransformPool[2], TransformPool[3]>> =>
                       /\ f <= 45 =>
                              ElementStyle(i).transform = S("translateX(0px) scale(1)")
                       /\ 45 <= f /\ f <= 90 =>
                              ElementStyle(i).transform =
                                  S("translateX(" \o NumToString(Num(100 * (f - 45), 45))
                                       \o "px) scale(1)")

\* translateX(0px) scale(1) at 0, no transform at 0.5, translateX(100px) at
\* 1, resolved at frame 45: translateX is still 0.
C19_HeldAtMiddleKeyframe ==
    \E i \in 1..Len(scenes) :
        /\ Resolved(i)
        /\ scenes[i].keyframes = <<TransformPool[1], TransformPool[2], TransformPool[3]>>
        /\ LocalFrame(i) = 45
        /\ ElementStyle(i).transform = S("translateX(0px) scale(1)")

\* The scale and rotation of the background of the scene with 0-based
\* index at progress p: 1 + 0.1 p and -1 + 2 p degrees for an even index,
\* 1.1 - 0.1 p and 1 - 2 p degrees for an odd one.
Breathing(index, p) ==
    IF index % 2 = 0
    THEN [scale |-> Add(OfInt(1), Mul(Num(1, 10), p)),
          rotate |-> Add(OfInt(-1), Mul(OfInt(2), p))]
    ELSE [scale |-> Sub(Num(11, 10), Mul(Num(1, 10), p)),
          rotate |-> Sub(OfInt(1), Mul(OfInt(2), p))]

\* C20 as stated (background breathing effect): the background of every
\* mounted scene i is scaled and rotated by the progress p through the
\* whole composition, the master frame over the composition length.
C20_ProgressOfComposition ==
    \A i \in 1..Len(scenes) :
        rendered.scenes[i].mounted =>
            rendered.scenes[i].imageTransforms =
                Breathing(i - 1, Num(frame, CompositionLength))

\* C20 (background breathing effect): the background of every mounted
\* scene i is scaled and rotated by the progress p of the scene through its
\* own window, its local frame over the 120 frames of the window, so p is
\* in [0, 1) and starts again at 0 with every scene.
C20_ProgressOfScene ==
    \A i \in 1..Len(scenes) :
        rendered.scenes[i].mounted =>
            /\ rendered.scenes[i].imageTransforms =
                   Breathing(i - 1, Num(frame - 90 * (i - 1), 120))
            /\ Le(OfInt(1), rendered.scenes[i].imageTransforms.scale)
            /\ Le(rendered.scenes[i].imageTransforms.scale, Num(11, 10))

\* The second scene (odd index 1) of a three-scene composition a quarter
\* of the way through its window, at master frame 120: scale 1.075,
\* rotation 0.5 degrees.
C20_OddSceneQuarter ==
    /\ Len(scenes) = 3
    /\ frame = 120
    /\ rendered.scenes[2].mounted
    /\ rendered.scenes[2].frame = 30
    /\ rendered.scenes[2].imageTransforms = [scale |-> Num(43, 40), rotate |-> Num(1, 2)]

\* ------------------------------------------------------------------------
\* Properties of fetchWithRetry
\* ------------------------------------------------------------------------

FetchEnded == fetch.pc \in {"returned", "thrown"}

ClientError(status) == status >= 400 /\ status < 500

\* The attempts (their 1-based numbers) that failed.
FailedAttempts == {k \in 1..Len(fetch.attempts) : ~ResponseOk(fetch.attempts[k])}

\* C21: fetchWithRetry does not retry on client errors: a 4xx answer is the
\* last attempt, its client-error failure is thrown to the caller at once and
\* no backoff sleep follows it.
C21_NoRetryOnClientError ==
    fetch # Idle =>
        \A k \in 1..Len(fetch.attempts) :
            ClientError(fetch.attempts[k]) =>
                /\ k = Len(fetch.attempts)
                /\ fetch.pc = "thrown"
                /\ fetch.error = AttemptError(fetch.attempts[k])
                /\ Len(fetch.slept) < k

IsProgress(e) == e.type = "progress"

IsTerminal(e) == e.type \in {"result", "error"}

\* The progress events of the stream, in the order of their enqueueing.
ProgressEvents == SelectSeq(gen.stream, IsProgress)

TerminalEvents == SelectSeq(gen.stream, IsTerminal)

\* C23: every stream of the generation handler is zero or more progress
\* events followed by exactly one terminal event, result or error, never
\* both; the stream is closed after the terminal event, every stream that was
\* opened gets there, and nothing is enqueued after the close.
C23_EventStreamProtocol ==
    /\ [](gen # Idle =>
            /\ Len(TerminalEvents) <= 1
            /\ \A k \in 1..Len(gen.stream) - 1 : IsProgress(gen.stream[k])
            /\ gen.closed <=> Len(TerminalEvents) = 1
            /\ gen.stream # <<>> => gen.response = 200)
    /\ [][gen # Idle /\ gen.closed =>
            gen'.closed /\ gen'.stream = gen.stream]_vars
    /\ [](gen # Idle /\ gen.response = 200 => <>gen.closed)

\* Two scenes without narration: six progress events, the result, the close.
C23_ResultAfterSixSteps ==
    /\ gen # Idle
    /\ gen.closed
    /\ gen.version = 2
    /\ Len(gen.stream) = 7
    /\ gen.stream[7] = ResultEvent
    /\ gen.pending = {}

\* C28: the progress events of a run of internalGenerateVideo are numbered
\* 1, 2, 3, ... without a gap, the concurrent image tasks included, and none
\* has a step above totalSteps, whatever the number of scene ideas and the
\* narration setting.
C28_ProgressNumbering ==
    gen # Idle /\ gen.version = 2 =>
        \A k \in 1..Len(ProgressEvents) :
            /\ ProgressEvents[k].step = k
            /\ ProgressEvents[k].step <= ProgressEvents[k].totalSteps

\* ------------------------------------------------------------------------
\* Properties of the storyboard proxy
\* ------------------------------------------------------------------------

\* The promise a delivered message settles, as the listener is meant to.
Settled(request, event) ==
    IF Truthy(event.error)
    THEN Request(request.id, "rejected", event.error, request.settles + 1)
    ELSE Request(request.id, "resolved", event.payload, request.settles + 1)

\* C24: with any number of requests outstanding and answers in any order, a
\* message of the iframe with id X settles the pending request registered
\* under X, rejecting when it carries an error and resolving with the payload
\* otherwise, removes it from the queue and leaves every other request as it
\* was; no promise is settled twice, and a message with an unknown id or from
\* another source changes nothing.
C24_RequestCorrelation ==
    /\ [](proxy # Idle =>
            /\ \A k \in 1..Len(proxy.requests) : proxy.requests[k].settles <= 1
            /\ \A id \in DOMAIN proxy.requestQueue :
                  /\ proxy.requestQueue[id] \in 1..Len(proxy.requests)
                  /\ proxy.requests[proxy.requestQueue[id]].id = id
                  /\ proxy.requests[proxy.requestQueue[id]].state = "pending")
    /\ [][proxy # Idle /\ proxy'.delivered = proxy.delivered + 1 =>
            IF /\ proxy'.last.source = "iframe"
               /\ proxy'.last.id \in DOMAIN proxy.requestQueue
            THEN /\ proxy'.requests[proxy.requestQueue[proxy'.last.id]] =
                        Settled(proxy.requests[proxy.requestQueue[proxy'.last.id]],
                                proxy'.last)
                 /\ \A j \in 1..Len(proxy.requests) :
                        j # proxy.requestQueue[proxy'.last.id] =>
                            proxy'.requests[j] = proxy.requests[j]
                 /\ DOMAIN proxy'.requestQueue =
                        DOMAIN proxy.requestQueue \ {proxy'.last.id}
                 /\ \A id \in DOMAIN proxy'.requestQueue :
                        proxy'.requestQueue[id] = proxy.requestQueue[id]
            ELSE /\ proxy'.requests = proxy.requests
                 /\ proxy'.requestQueue = proxy.requestQueue]_vars

\* Three requests are outstanding under three ids; the answer to the second
\* comes first and resolves it, the first and the third are still pending
\* and registered.
C24_SecondAnsweredFirst ==
    /\ proxy # Idle
    /\ Len(proxy.requests) = 3
    /\ proxy.requests[2] =
           Request(proxy.last.id, "resolved", S(ResponseText(2)), 1)
    /\ proxy.last.source = "iframe"
    /\ proxy.requests[1].state = "pending"
    /\ proxy.requests[3].state = "pending"
    /\ proxy.inflight = {1, 3}
    /\ DOMAIN proxy.requestQueue = {proxy.requests[1].id, proxy.requests[3].id}
    /\ Cardinality(DOMAIN proxy.requestQueue) = 2

\* ------------------------------------------------------------------------
\* Properties of the player, continued
\* ------------------------------------------------------------------------

\* The scenes (counted from 1) whose Sequence is mounted.
MountedScenes == {i \in 1..Len(scenes) : rendered.scenes[i].mounted}

\* C25 (scene coverage of the timeline): with n >= 1 scenes, at every master
\* frame one or two scenes are mounted, two scenes mounted together are
\* neighbours, and the window of the last scene ends exactly at the
\* composition length n * 90 + 30.
C25_SceneCoverage ==
    Len(scenes) >= 1 =>
        /\ Cardinality(MountedScenes) \in {1, 2}
        /\ \A i, j \in MountedScenes : i < j => j = i + 1
        /\ frame = CompositionLength - 1 => MountedScenes = {Len(scenes)}
        /\ SequenceFrom(Len(scenes) - 1) + SequenceDurationInFrames
               = CompositionLength

\* Master frame 130 of three scenes: between the two transitions the middle
\* scene is the only one mounted.
C25_OnlyMiddleScene ==
    /\ Len(scenes) = 3
    /\ frame = 130
    /\ MountedScenes = {2}

\* The terms of a rendered transform, split at the spaces.
RECURSIVE SplitTerms(_, _, _)
SplitTerms(s, i, cur) ==
    IF i > Len(s) THEN <<cur>>
    ELSE IF SubSeq(s, i, i) = " " THEN <<cur>> \o SplitTerms(s, i + 1, "")
    ELSE SplitTerms(s, i + 1, cur \o SubSeq(s, i, i))

RenderedTerms(s) == IF s = "" THEN <<>> ELSE SplitTerms(s, 1, "")

\* The index after the number that starts at index i of a rendered term.
RECURSIVE NumberEnd(_, _)
NumberEnd(term, i) ==
    IF i + 2 <= Len(term) /\ SubSeq(term, i, i + 2) = "NaN" THEN i + 3
    ELSE IF i <= Len(term)
            /\ SubSeq(term, i, i) \in {"0", "1", "2", "3", "4", "5", "6", "7",
                                       "8", "9", ".", "-", "/"}
         THEN NumberEnd(term, i + 1)
    ELSE i

\* The parts of a rendered term func(<number><unit>).
TermFunc(term, func) == SubSeq(term, 1, Len(func) + 1)

TermNumber(term, func) ==
    SubSeq(term, Len(func) + 2, NumberEnd(term, Len(func) + 2) - 1)

TermUnit(term, func) ==
    SubSeq(term, NumberEnd(term, Len(func) + 2), Len(term) - 1)

\* C26 (transform channels are not clamped): when transform is defined by
\* two or more keyframes and the local frame lies after the last (before
\* the first) keyframe position of the element, every channel is rendered
\* with the value of the straight line through the last two (first two)
\* keyframes of the element, continued to the frame; an opacity defined by
\* two or more keyframes keeps its boundary value there.
C26_TransformExtrapolates ==
    \A i \in 1..Len(scenes) :
        Resolved(i) /\ Cardinality(Defining(scenes[i].keyframes, "transform")) >= 2 =>
            LET sorted == SortKeyframes(scenes[i].keyframes)
                funcs == AllFuncs(KeyframesForProp(sorted, "transform"), <<>>)
                f == OfInt(LocalFrame(i))
                n == Len(sorted)
                terms == RenderedTerms(ElementStyle(i).transform.s)
                Line(a, b, func) ==
                    Lerp(f, Position(sorted[a]), Position(sorted[b]),
                         Carried(sorted, a, func), Carried(sorted, b, func))
                Continues(a, b) ==
                    /\ Len(terms) = Len(funcs)
                    /\ \A m \in 1..Len(funcs) :
                           /\ TermFunc(terms[m], funcs[m]) = funcs[m] \o "("
                           /\ TermNumber(terms[m], funcs[m])
                                  = NumToString(Line(a, b, funcs[m]))
                Outside == Lt(Position(sorted[n]), f) \/ Lt(f, Position(sorted[1]))
            IN  /\ Lt(Position(sorted[n]), f) => Continues(n - 1, n)
                /\ Lt(f, Position(sorted[1])) => Continues(1, 2)
                /\ Outside /\ Cardinality(Defining(sorted, "opacity")) >= 2 =>
                       ElementStyle(i).opacity \in
                           {N(OpacityAt(sorted, k)) : k \in Defining(sorted, "opacity")}

\* Local frame 108 of an element moving from translateX(0px) at 0 to
\* translateX(100px) at 90: the channel has run on to 120.
C26_PastTheLastKeyframe ==
    \E i \in 1..Len(scenes) :
        /\ Resolved(i)
        /\ scenes[i].keyframes = <<TransformPool[1], TransformPool[2]>>
        /\ LocalFrame(i) = 108
        /\ ElementStyle(i).transform = S("translateX(120px) scale(1)")

\* The defining keyframes of a channel whose unit is not the default unit
\* of the function.
OtherUnit(sorted, func) ==
    {j \in DefinedUpTo(sorted, Len(sorted), func) :
         Lookup(ParsedTransform(sorted[j]), func).unit # ExpectedUnit(func)}

\* The unit the channel is expected to render with.
SelectedUnit(sorted, func) ==
    IF OtherUnit(sorted, func) = {} THEN ExpectedUnit(func)
    ELSE Lookup(ParsedTransform(
             sorted[CHOOSE j \in OtherUnit(sorted, func) :
                        \A k \in OtherUnit(sorted, func) : j <= k]), func).unit

\* C27 (transform unit selection): at every frame a channel is rendered with
\* the unit of the chronologically first keyframe that defines it with a
\* unit other than the default of its function, or with the default unit
\* when there is none; at the position of a keyframe that defines the
\* channel the rendered number is that keyframe's number, whatever its unit.
C27_UnitSelection ==
    \A i \in 1..Len(scenes) :
        Resolved(i) /\ Cardinality(Defining(scenes[i].keyframes, "transform")) >= 2 =>
            LET sorted == SortKeyframes(scenes[i].keyframes)
                funcs == AllFuncs(KeyframesForProp(sorted, "transform"), <<>>)
                terms == RenderedTerms(ElementStyle(i).transform.s)
            IN  /\ Len(terms) = Len(funcs)
                /\ \A m \in 1..Len(funcs) :
                       /\ TermFunc(terms[m], funcs[m]) = funcs[m] \o "("
                       /\ TermUnit(terms[m], funcs[m]) = SelectedUnit(sorted, funcs[m])
                       /\ \A k \in DefinedUpTo(sorted, Len(sorted), funcs[m]) :
                              Position(sorted[k]) = OfInt(LocalFrame(i)) =>
                                  TermNumber(terms[m], funcs[m]) = NumToString(
                                      Lookup(ParsedTransform(sorted[k]), funcs[m]).value)

\* An element with translateX(50%) at 0.8 and translateX(100px) at 1, at
\* local frame 90: the number of the last keyframe with the unit of the
\* earlier one.
C27_LaterUnitIgnored ==
    \E i \in 1..Len(scenes) :
        /\ Resolved(i)
        /\ SortKeyframes(scenes[i].keyframes) = <<TransformPool[5], TransformPool[2]>>
        /\ LocalFrame(i) = 90
        /\ ElementStyle(i).transform = S("translateX(100%) rotateY(1.5turn)")

\* ------------------------------------------------------------------------
\* Properties of the streaming client
\* ------------------------------------------------------------------------

\* The result and error callbacks a generation has invoked.
TerminalCallbacks ==
    {n \in 1..Len(client.callbacks) : client.callbacks[n] \in {"onResult", "onError"}}

\* C29 (generation always ends in the UI): every generation started by
\* handleGenerate eventually invokes exactly one of onResult and onError;
\* it invokes none twice and no callback after it, it has invoked one when
\* streamVideoGeneration settles, result and error are never both set, and
\* loading always returns to false.
C29_GenerationEnds ==
    /\ [](client.pc # "idle" =>
              /\ Cardinality(TerminalCallbacks) <= 1
              /\ TerminalCallbacks \subseteq {Len(client.callbacks)}
              /\ ~(client.videoResult # NoValue /\ client.error # NoValue)
              /\ client.promise \in {"fulfilled", "rejected"} =>
                     Cardinality(TerminalCallbacks) = 1)
    /\ [](client.pc # "idle" /\ client.promise = "pending" =>
              <>(Cardinality(TerminalCallbacks) = 1))
    /\ [](client.pc # "idle" /\ client.loading =>
              <>(/\ ~client.loading
                 /\ client.videoResult # NoValue \/ client.error # NoValue))

\* ------------------------------------------------------------------------
\* Properties of the studio App
\* ------------------------------------------------------------------------

\* C30 (overlapping generations): while a generation is in flight the
\* loading state is not null, a result or error shown belongs to no
\* generation but the one submitted last, and once every generation has
\* settled the result or the error of the one submitted last is shown.
C30_OverlappingGenerations ==
    app.pc # "idle" =>
        /\ InFlight(app) # {} => app.loadingState # NoValue
        /\ app.videoResult \in {0, app.submitted}
        /\ app.error \in {0, app.submitted}
        /\ app.submitted > 0 /\ InFlight(app) = {} =>
               app.videoResult = app.submitted \/ app.error = app.submitted

====
